---------------------------- MODULE Spec2Model ----------------------------
(***************************************************************************)
(* Model of the fantasy league engine of src/league.py (class League).     *)
(*                                                                         *)
(* A League is one record (teams, cards, synergies, season, random source, *)
(* logs) plus the position of the caller inside run_full_season.  Every    *)
(* operation of the engine is an operator from a League record to the      *)
(* League record it leaves behind; the actions apply these operators to    *)
(* the variable `league`.                                                  *)
(*                                                                         *)
(* The random source random.Random(seed) is a deterministic generator: it  *)
(* is modelled as a linear congruential generator whose state is part of   *)
(* the League.  Every self.rng.* call of the source is one step of it.     *)
(*                                                                         *)
(* Numbers: the floats of the source are fixed-point integers here.        *)
(*   - a synergy rule's power_mult is in hundredths (1.03 is 103);         *)
(*   - an effective synergy multiplier is in millionths (1.2 is 1200000);  *)
(*   - random() is v / RngMod for the generator's state v.                 *)
(***************************************************************************)
EXTENDS Integers, Sequences, FiniteSets, TLC

(***************************************************************************)
(* Bounds of the model.  The league of the source has NUM_TEAMS = 30       *)
(* teams; the model has NumTeams, and the sizes the source ties to 30      *)
(* teams (the team word bank, the card pool, the rookie class, the playoff *)
(* field, the city bank) are written as functions of NumTeams that give    *)
(* the source's numbers at NumTeams = 30.                                  *)
(***************************************************************************)
NumTeams == 6
NumSeeds == 6
MaxCalls == 11

NUM_TEAMS == NumTeams
\* len(TEAM_WORDS): 29 words for 30 teams
NumTeamWords == NumTeams - 1
\* len(cities) in _random_city_tag: 16 for 30 teams
NumCities == IF (16 * NumTeams) \div 30 < 2 THEN 2 ELSE (16 * NumTeams) \div 30
\* MIN_CARD_POOL = 160, MAX_CARD_POOL = 170 for 30 teams
MIN_CARD_POOL == (16 * NumTeams) \div 3
MAX_CARD_POOL == (17 * NumTeams) \div 3
\* _generate_rookies(4): 4 rookies a season for 30 teams
RookieClass == (4 * NumTeams + 29) \div 30
\* _seed_playoffs: the top 16 of 30 teams, paired into 8 series
RECURSIVE Pow2Below(_)
Pow2Below(n) == IF n < 2 THEN 1 ELSE 2 * Pow2Below(n \div 2)
PlayoffPairs == Pow2Below(NumTeams \div 2)
PlayoffField == 2 * PlayoffPairs

ROSTER_SIZE == 4
STARTERS == 3
SEASON_MIN_LIFE == 5
SEASON_MAX_LIFE == 8
RIVALRY_INITIAL == 10
RIVALRY_DECAY == 2
RIVALRY_GAIN == 6
\* RIVALRY_WIN_BUFF_PCT = 0.02, in hundredths
RIVALRY_WIN_BUFF_PCT == 2
RIVALRY_WIN_BUFF_GAMES == 2
\* POWER_WEIGHT = 0.75, LUCK_WEIGHT = 0.25, in hundredths
POWER_WEIGHT == 75
LUCK_WEIGHT == 25
DEFAULT_SEED == 1337
HOF_GUARANTEE == 85
HOF_BUBBLE_MIN == 70
CHAMPIONSHIP_POINTS == 5
\* GRADE_W_OVR = 0.45, GRADE_W_SYNERGY = 0.35, GRADE_W_VALUE = 0.20, in hundredths
GRADE_W_OVR == 45
GRADE_W_SYNERGY == 35
GRADE_W_VALUE == 20
\* len(NAME_SYLLABLES)
NumSyllables == 20

\* list(Archetype), list(AtkType), GM_STYLES in the order of the source
Archetypes == <<"Tank", "Healer", "Burst", "Control", "Utility", "Balanced">>
AtkTypes == <<"Melee", "Ranged", "Spell">>
GM_STYLES == <<"risk_taker", "conservative", "synergy_focused", "star_chaser">>
StatNames == <<"atk", "defense", "speed", "hit_speed", "stamina">>

-----------------------------------------------------------------------------
(***************************************************************************)
(* Sequences and arithmetic.                                               *)
(***************************************************************************)
Min(a, b) == IF a < b THEN a ELSE b
Max(a, b) == IF a > b THEN a ELSE b
Abs(x) == IF x < 0 THEN -x ELSE x

Range(s) == {s[i] : i \in DOMAIN s}

RECURSIVE SumSeq(_)
SumSeq(s) == IF s = <<>> THEN 0 ELSE Head(s) + SumSeq(Tail(s))

Reverse(s) == [i \in 1..Len(s) |-> s[Len(s) + 1 - i]]

\* s[:n] of Python
Take(s, n) == SubSeq(s, 1, Min(n, Len(s)))

\* Python's round(): num / den rounded to the nearest integer, halves to the
\* even neighbour.  num >= 0, den > 0.
RoundHalfEven(num, den) ==
    LET q == num \div den
        r == num % den
    IN  IF 2 * r < den THEN q
        ELSE IF 2 * r > den THEN q + 1
        ELSE IF q % 2 = 0 THEN q ELSE q + 1

\* A sort key of the source is a tuple of one or two numbers; here it is
\* <<n1, d1, n2, d2>>, the pair of fractions (n1/d1, n2/d2) with d1, d2 > 0.
KeyLess(k, l) ==
    \/ k[1] * l[2] < l[1] * k[2]
    \/ /\ k[1] * l[2] = l[1] * k[2]
       /\ k[3] * l[4] < l[3] * k[4]
IntKey(n) == <<n, 1, 0, 1>>

\* sorted(items, key=..., reverse=desc), keys[i] being the key of items[i]:
\* Python's sort is stable, also with reverse=True (equal keys keep their
\* original order), so items[i] comes after every item that sorts strictly
\* before it and after the equal-keyed items to its left.
SortByKey(items, keys, desc) ==
    LET n == Len(items)
        Before(j, i) ==
            IF desc THEN KeyLess(keys[i], keys[j]) ELSE KeyLess(keys[j], keys[i])
        Rank(i) == 1 + Cardinality({j \in 1..n :
                        \/ Before(j, i)
                        \/ (~Before(i, j) /\ j < i)})
        rank == [i \in 1..n |-> Rank(i)]
    IN  [r \in 1..n |-> items[CHOOSE i \in 1..n : rank[i] = r]]

\* Loops.  A loop of the source that threads a value g through its passes is
\* written as an operator Xs(lo, hi, g): the passes lo..hi, in order, from g.
\* The range is split in halves, the first half being evaluated before the
\* second starts (Then), so that the evaluation depth is logarithmic in the
\* number of passes; the result is that of running the passes one by one.
Then(x, e) == IF x = x THEN e ELSE e

-----------------------------------------------------------------------------
(***************************************************************************)
(* The random source.  rng is the generator's state; each call of          *)
(* self.rng.random / randint / choice / uniform draws one value.           *)
(***************************************************************************)
RngMod == 65537
RngMul == 75
RngInc == 74

\* random.Random(seed)
SeedRng(seed) == seed % (RngMod - 1)

\* the generator's state after one more draw; the state is the value drawn
NextRng(s) == (RngMul * s + RngInc) % RngMod

RECURSIVE Adv(_, _)
Adv(s, k) ==
    IF k <= 0 THEN s
    ELSE IF k = 1 THEN NextRng(s)
    ELSE LET s1 == Adv(s, k \div 2)
         IN  Then(s1, Adv(s1, k - (k \div 2)))

\* randbelow(n) from the draw v
Below(v, n) == v % n
\* randint(a, b) from the draw v
RandInt(v, a, b) == a + Below(v, b - a + 1)
\* random() < pct / 100 for the draw v
Chance(v, pct) == 100 * v < pct * RngMod

\* rng.shuffle(x): for i in reversed(range(1, len(x))): swap x[i], x[randbelow(i+1)]
Swap(s, i, j) == [s EXCEPT ![i] = s[j], ![j] = s[i]]
\* pass k (1-based) swaps position i = len(x) - k + 1 with a position in 1..i
ShufflePass(k, g) ==
    LET i == Len(g.val) - k + 1
        v == NextRng(g.rng)
    IN  [val |-> Swap(g.val, i, 1 + Below(v, i)), rng |-> v]
RECURSIVE ShufflePasses(_, _, _)
ShufflePasses(lo, hi, g) ==
    IF lo > hi THEN g
    ELSE IF lo = hi THEN ShufflePass(lo, g)
    ELSE LET mid == (lo + hi) \div 2
             g1 == ShufflePasses(lo, mid, g)
         IN  Then(g1, ShufflePasses(mid + 1, hi, g1))
Shuffle(s, rng) == ShufflePasses(1, Len(s) - 1, [val |-> s, rng |-> rng])

-----------------------------------------------------------------------------
(***************************************************************************)
(* Cards.                                                                  *)
(***************************************************************************)
\* compute_ovr's weights, in hundredths, in the order of StatNames
OvrWeights(archetype) ==
    CASE archetype = "Tank"    -> <<15, 35, 15, 15, 20>>
      [] archetype = "Healer"  -> <<15, 15, 15, 25, 30>>
      [] archetype = "Burst"   -> <<35, 10, 25, 15, 15>>
      [] archetype = "Control" -> <<15, 20, 25, 25, 15>>
      [] archetype = "Utility" -> <<20, 20, 20, 20, 20>>
      [] OTHER                 -> <<20, 20, 20, 20, 20>>

\* Card.compute_ovr: max(0, min(100, int(round(score))))
ComputeOvr(c) ==
    LET w == OvrWeights(c.archetype)
        score100 == c.atk * w[1] + c.defense * w[2] + c.speed * w[3]
                    + c.hit_speed * w[4] + c.stamina * w[5]
    IN  Max(0, Min(100, RoundHalfEven(score100, 100)))

NoAwards == [MVP |-> 0, MIP |-> 0, ALL_STAR |-> 0, MOTY |-> 0, ALL_TEAM |-> 0]

\* Card(...) followed by card.compute_ovr() and the first ovr_history entry
NewCard(cid, arche, atype, stats, seasons_left, season) ==
    LET c == [id |-> cid, archetype |-> arche, atk_type |-> atype,
              atk |-> stats[1], defense |-> stats[2], speed |-> stats[3],
              hit_speed |-> stats[4], stamina |-> stats[5],
              seasons_left |-> seasons_left, rookie_season |-> season,
              seasonal_special |-> FALSE, legend |-> FALSE,
              ovr |-> 0, games_played |-> 0, crowns_total |-> 0, crowns_high |-> 0,
              contribution_sum |-> 0, usage_games |-> 0, teams_history |-> <<>>,
              awards |-> NoAwards, all_star_appearances |-> 0, pick_seasons |-> 0,
              ovr_history |-> <<>>, patch_reactions |-> 0]
        o == ComputeOvr(c)
    IN  [c EXCEPT !.ovr = o, !.ovr_history = <<<<season, o>>>>]

\* Card.usage_pct as the fraction <<numerator, denominator>> (times 100 in the source)
UsagePct(c) == <<c.usage_games, Max(1, c.games_played)>>

\* Card.pick_rate_pct(seasons_elapsed) as a fraction
PickRatePct(c, seasons_elapsed) ==
    LET eligible == Min(Max(1, seasons_elapsed - (c.rookie_season - 1)), SEASON_MAX_LIFE)
    IN  <<c.pick_seasons, eligible>>

\* _random_name: parts = choice([2, 3]), then one syllable per part
RECURSIVE Syllables(_, _)
Syllables(n, rng) ==
    IF n = 0 THEN [val |-> <<>>, rng |-> rng]
    ELSE LET g == Syllables(n - 1, rng)
             v == NextRng(g.rng)
         IN  [val |-> Append(g.val, 1 + Below(v, NumSyllables)), rng |-> v]
RandomName(rng) ==
    LET v == NextRng(rng)
    IN  Syllables(2 + Below(v, 2), v)

\* _generate_card_name: _random_name and one choice of the right-hand word; the
\* name itself is not kept
CardNameRng(rng) == NextRng(RandomName(rng).rng)

\* _generate_card_pool: one card of the initial pool, drawn from rng
PoolCard(cid, season, rng) ==
    LET r0 == CardNameRng(rng)
        v1 == NextRng(r0)
        v2 == NextRng(v1)
        s1 == NextRng(v2)
        s2 == NextRng(s1)
        s3 == NextRng(s2)
        s4 == NextRng(s3)
        s5 == NextRng(s4)
        v8 == NextRng(s5)
        stats == <<RandInt(s1, 45, 90), RandInt(s2, 45, 90), RandInt(s3, 45, 90),
                   RandInt(s4, 45, 90), RandInt(s5, 45, 90)>>
    IN  [val |-> NewCard(cid, Archetypes[1 + Below(v1, Len(Archetypes))],
                         AtkTypes[1 + Below(v2, Len(AtkTypes))], stats,
                         RandInt(v8, SEASON_MIN_LIFE, SEASON_MAX_LIFE), season),
         rng |-> v8]

\* _generate_rookies: one rookie, drawn from rng
RookieCard(cid, season, rng) ==
    LET r0 == CardNameRng(rng)
        v1 == NextRng(r0)
        v2 == NextRng(v1)
        vb == NextRng(v2)
        base == RandInt(vb, 40, 88)
        s1 == NextRng(vb)
        s2 == NextRng(s1)
        s3 == NextRng(s2)
        s4 == NextRng(s3)
        s5 == NextRng(s4)
        v8 == NextRng(s5)
        St(v) == Max(35, Min(95, base + RandInt(v, -5, 10)))
    IN  [val |-> NewCard(cid, Archetypes[1 + Below(v1, Len(Archetypes))],
                         AtkTypes[1 + Below(v2, Len(AtkTypes))],
                         <<St(s1), St(s2), St(s3), St(s4), St(s5)>>,
                         RandInt(v8, SEASON_MIN_LIFE, SEASON_MAX_LIFE), season),
         rng |-> v8]

-----------------------------------------------------------------------------
(***************************************************************************)
(* Synergy rules.                                                          *)
(***************************************************************************)
\* product(list(Archetype), repeat=2) without the pairs a1 == a2, in order
ArchetypePairs ==
    LET n == Len(Archetypes)
        all == [k \in 1..(n * n) |-> <<Archetypes[1 + (k - 1) \div n],
                                       Archetypes[1 + ((k - 1) % n)]>>]
    IN  SelectSeq(all, LAMBDA p : p[1] # p[2])

AtkCombos == << {"Melee", "Ranged"}, {"Ranged", "Spell"}, {"Melee", "Spell"},
                {"Melee", "Ranged", "Spell"} >>

\* the cap codes[:95] of _generate_synergies
SynergyCap == 95
\* the break "if idx > 60" of the archetype-pair loop
PairCap == 60

\* _generate_synergies: the rules in the order of their codes SYN001, SYN002, ...
GenerateSynergies ==
    LET pairs == Take(ArchetypePairs, PairCap)
        np == Len(pairs)
        pairRules == [i \in 1..np |->
            [code |-> i, requires_archetypes |-> {pairs[i][1], pairs[i][2]},
             requires_atktypes |-> {}, power_mult |-> 103 + (i % 3), history |-> <<>>]]
        atkRules == [j \in 1..Len(AtkCombos) |->
            [code |-> np + j, requires_archetypes |-> {},
             requires_atktypes |-> AtkCombos[j],
             power_mult |-> IF Cardinality(AtkCombos[j]) = 3 THEN 104 ELSE 102,
             history |-> <<>>]]
        na == np + Len(AtkCombos)
        legRules == [k \in 1..Len(Archetypes) |->
            [code |-> na + k, requires_archetypes |-> {Archetypes[k]},
             requires_atktypes |-> {}, power_mult |-> 105, history |-> <<>>]]
    IN  Take(pairRules \o atkRules \o legRules, SynergyCap)

\* Synergy.active(starters); starters is a sequence of card records
Active(syn, starters) ==
    LET a_set == {starters[i].archetype : i \in DOMAIN starters}
        t_set == {starters[i].atk_type : i \in DOMAIN starters}
    IN  /\ (syn.requires_archetypes # {} => syn.requires_archetypes \subseteq a_set)
        /\ (syn.requires_atktypes # {} => syn.requires_atktypes \subseteq t_set)

\* the clamp of _effective_synergy_multiplier, max(0.9, min(1.2, mult)), in millionths
SynergyFloor == 900000
SynergyCeil == 1200000
One == 1000000

\* _effective_synergy_multiplier(starters), in millionths
RECURSIVE SynergyProduct(_, _, _, _, _)
SynergyProduct(lo, hi, synergies, starters, mult) ==
    IF lo > hi THEN mult
    ELSE IF lo = hi
         THEN (IF Active(synergies[lo], starters)
               THEN (mult * synergies[lo].power_mult) \div 100 ELSE mult)
    ELSE LET mid == (lo + hi) \div 2
             m1 == SynergyProduct(lo, mid, synergies, starters, mult)
         IN  Then(m1, SynergyProduct(mid + 1, hi, synergies, starters, m1))
EffectiveSynergyMultiplier(synergies, starters) ==
    Max(SynergyFloor, Min(SynergyCeil, SynergyProduct(1, Len(synergies), synergies, starters, One)))

-----------------------------------------------------------------------------
(***************************************************************************)
(* Teams.  A team's name is <<city, word>>: the city tag and the team word *)
(* of f"{city} {tname}".  None (no backup, no champion) is 0; card ids     *)
(* start at 1.                                                             *)
(***************************************************************************)
None == 0
\* None where a team name is expected
NoTeam == <<>>
\* None where a GameResult is expected
NoGame ==
    [season |-> 0, week |-> 0, home |-> NoTeam, away |-> NoTeam, home_crowns |-> 0,
     away_crowns |-> 0, details |-> <<>>, highlights |-> 0, rivalry_proc |-> FALSE, draft |-> 0,
     boost_home |-> FALSE, boost_away |-> FALSE, prior_home |-> <<>>, prior_away |-> <<>>]

\* Team(name=..., gm_name=..., gm_style=..., gm_social=..., gm_rivalry=...)
NewTeam(name, gm, style, social, riv) ==
    [name |-> name, gm_name |-> gm, gm_style |-> style, gm_social |-> social,
     gm_rivalry |-> riv, roster |-> <<>>, starters |-> <<>>, backup |-> None,
     wins |-> 0, losses |-> 0, crowns_for |-> 0, crowns_against |-> 0,
     rivalry_boost_games_left |-> 0, rivals |-> <<>>, rings |-> 0,
     dynasty_points |-> 0, season_card_crowns |-> <<>>, season_card_contrib |-> <<>>]

\* d[k] = v of a Python dict: the value is replaced, a new key goes last
DictSet(d, k, v) == [x \in (DOMAIN d) \cup {k} |-> IF x = k THEN v ELSE d[x]]
\* d.get(k, 0)
DictGet(d, k) == IF k \in DOMAIN d THEN d[k] ELSE 0
\* the keys of a dict after d[k] = v, in insertion order
KeysSet(order, k) == IF k \in Range(order) THEN order ELSE Append(order, k)

\* pass i (0-based) of the loop "for i in range(NUM_TEAMS)" of _generate_teams;
\* g is [teams, team_order, rng]
TeamPass(i, names, g) ==
    LET tname == names[1 + (i % Len(names))]
        vc == NextRng(g.rng)
        city == 1 + Below(vc, NumCities)
        full == <<city, tname>>
        gm == RandomName(vc)
        vs == NextRng(gm.rng)
        vo == NextRng(vs)
        vr == NextRng(vo)
        team == NewTeam(full, gm.val, GM_STYLES[1 + Below(vs, Len(GM_STYLES))],
                        1 + Below(vo, 4), 1 + Below(vr, 2))
    IN  [teams |-> DictSet(g.teams, full, team),
         team_order |-> KeysSet(g.team_order, full),
         rng |-> vr]
RECURSIVE TeamPasses(_, _, _, _)
TeamPasses(lo, hi, names, g) ==
    IF lo > hi THEN g
    ELSE IF lo = hi THEN TeamPass(lo, names, g)
    ELSE LET mid == (lo + hi) \div 2
             g1 == TeamPasses(lo, mid, names, g)
         IN  Then(g1, TeamPasses(mid + 1, hi, names, g1))

\* combinations(tlist, 2), in order
Combinations2(tlist) ==
    LET n == Len(tlist)
        all == [k \in 1..(n * n) |-> <<1 + ((k - 1) \div n), 1 + ((k - 1) % n)>>]
        up == SelectSeq(all, LAMBDA p : p[1] < p[2])
    IN  [k \in 1..Len(up) |-> <<tlist[up[k][1]], tlist[up[k][2]]>>]

\* the chance of a seeded rivalry, rng.random() < 0.06, in hundredths
RivalrySeedPct == 6

\* pass k (1-based) of the loop "for a, b in combinations(tlist, 2)" of
\* _generate_teams; g is [teams, team_order, rng]
RivalryPass(k, pairs, g) ==
    LET a == pairs[k][1]
        b == pairs[k][2]
        v == NextRng(g.rng)
        va == NextRng(v)
        vb == NextRng(va)
    IN  IF Chance(v, RivalrySeedPct)
        THEN [g EXCEPT !.rng = vb,
                 !.teams[a].rivals = DictSet(@, b, RIVALRY_INITIAL + RandInt(va, 0, 6)),
                 !.teams[b].rivals = DictSet(@, a, RIVALRY_INITIAL + RandInt(vb, 0, 6))]
        ELSE [g EXCEPT !.rng = v]
RECURSIVE RivalryPasses(_, _, _, _)
RivalryPasses(lo, hi, pairs, g) ==
    IF lo > hi THEN g
    ELSE IF lo = hi THEN RivalryPass(lo, pairs, g)
    ELSE LET mid == (lo + hi) \div 2
             g1 == RivalryPasses(lo, mid, pairs, g)
         IN  Then(g1, RivalryPasses(mid + 1, hi, pairs, g1))

\* _generate_teams(None): [teams, team_order, rng]
GenerateTeams(rng) ==
    LET names == Shuffle([i \in 1..NumTeamWords |-> i], rng)
        made == TeamPasses(0, NUM_TEAMS - 1, names.val,
                           [teams |-> <<>>, team_order |-> <<>>, rng |-> names.rng])
        pairs == Combinations2(made.team_order)
    IN  RivalryPasses(1, Len(pairs), pairs, made)

-----------------------------------------------------------------------------
(***************************************************************************)
(* Construction of a League.                                               *)
(***************************************************************************)
\* None where an AwardWinners is expected
NoAwardWinners ==
    [season |-> 0, mvp |-> None, most_improved |-> None, all_first |-> <<>>,
     all_second |-> <<>>, all_third |-> <<>>, moty |-> <<>>, all_stars |-> <<>>]

\* SeasonHistory(season=...)
NewHistory(season) ==
    [season |-> season, champion |-> NoTeam, finalists |-> <<NoTeam, NoTeam>>,
     awards |-> NoAwardWinners, draft_grades |-> <<>>, leaders |-> <<>>,
     patch_notes |-> <<>>, synergy_notes |-> <<>>]

\* pass k (1-based) of the loop "for _ in range(total)" of _generate_card_pool, the
\* module's _card_id_counter being ctr at the first pass; g is [cards, card_order, rng]
PoolPass(k, ctr, season, g) ==
    LET cid == ctr + k - 1
        made == PoolCard(cid, season, g.rng)
    IN  [cards |-> DictSet(g.cards, cid, made.val),
         card_order |-> Append(g.card_order, cid),
         rng |-> made.rng]
RECURSIVE PoolPasses(_, _, _, _, _)
PoolPasses(lo, hi, ctr, season, g) ==
    IF lo > hi THEN g
    ELSE IF lo = hi THEN PoolPass(lo, ctr, season, g)
    ELSE LET mid == (lo + hi) \div 2
             g1 == PoolPasses(lo, mid, ctr, season, g)
         IN  Then(g1, PoolPasses(mid + 1, hi, ctr, season, g1))

\* _generate_card_pool, the module's _card_id_counter being ctr: [cards, card_order, rng]
GenerateCardPool(rng, season, ctr) ==
    LET vt == NextRng(rng)
        total == RandInt(vt, MIN_CARD_POOL, MAX_CARD_POOL)
        pool == PoolPasses(1, total, ctr, season,
                           [cards |-> <<>>, card_order |-> <<>>, rng |-> vt])
        vs == NextRng(pool.rng)
        special_id == pool.card_order[1 + Below(vs, Len(pool.card_order))]
    IN  [pool EXCEPT !.rng = vs, !.cards[special_id].seasonal_special = TRUE]

\* the locals of run_full_season and of the functions it calls, when no call is running
NoLocals ==
    [hist |-> NewHistory(0), order |-> <<>>, board |-> <<>>, taken |-> {}, rnd |-> 0,
     pick_idx |-> 0, picks |-> <<>>, clock |-> <<>>, schedule |-> <<>>, week |-> 0, current |-> <<>>,
     series_idx |-> 0, wins_a |-> 0, wins_b |-> 0, next_round |-> <<>>,
     finalists |-> <<NoTeam, NoTeam>>]

\* a League whose generator is seeded with the seed and the card-id counter
NewLeagueCounterSeeded(seed, ctr) ==
    LET t == GenerateTeams(SeedRng(seed + ctr))
        p == GenerateCardPool(t.rng, 1, ctr)
    IN  [rng |-> p.rng, season |-> 1, teams |-> t.teams, team_order |-> t.team_order,
         cards |-> p.cards, card_order |-> p.card_order, synergies |-> GenerateSynergies,
         history |-> <<>>, game_log |-> <<>>, playoff_bracket |-> <<>>,
         pc |-> "idle", raised |-> FALSE, last_game |-> NoGame, loc |-> NoLocals,
         drafts |-> 0, recent |-> [n \in DOMAIN t.teams |-> <<>>]]

\* League(seed), the module's _card_id_counter being ctr.  Three fields record
\* what has happened and are never read by the operations: drafts counts the
\* _run_draft calls, recent[team] lists the team's last two simulated games,
\* latest first (whether it was a win over a rival, and the draft it followed),
\* last_game is the latest GameResult.
NewLeague(seed, ctr) ==
    LET t == GenerateTeams(SeedRng(seed))
        p == GenerateCardPool(t.rng, 1, ctr)
    IN  [rng |-> p.rng, season |-> 1, teams |-> t.teams, team_order |-> t.team_order,
         cards |-> p.cards, card_order |-> p.card_order, synergies |-> GenerateSynergies,
         history |-> <<>>, game_log |-> <<>>, playoff_bracket |-> <<>>,
         pc |-> "idle", raised |-> FALSE, last_game |-> NoGame, loc |-> NoLocals,
         drafts |-> 0, recent |-> [n \in DOMAIN t.teams |-> <<>>]]

\* list(self.cards.values())
CardList(L) == [i \in 1..Len(L.card_order) |-> L.cards[L.card_order[i]]]

-----------------------------------------------------------------------------
(***************************************************************************)
(* Patch notes.                                                            *)
(***************************************************************************)
StatsOf(c) == <<c.atk, c.defense, c.speed, c.hit_speed, c.stamina>>
WithStats(c, st) ==
    [c EXCEPT !.atk = st[1], !.defense = st[2], !.speed = st[3],
              !.hit_speed = st[4], !.stamina = st[5]]

\* the stat loop without the clamp: setattr(c, stat, getattr(c, stat) + delta)
ApplyDeltasUnclamped(c, d) ==
    [c EXCEPT !.atk = @ + d[1], !.defense = @ + d[2], !.speed = @ + d[3],
              !.hit_speed = @ + d[4], !.stamina = @ + d[5]]

\* the body of the stat loop of _buff_card / _nerf_card for the deltas d:
\* if delta: setattr(c, stat, max(0, min(100, getattr(c, stat) + delta)))
ApplyDeltas(c, d) ==
    WithStats(c, [i \in 1..5 |->
        IF d[i] # 0 THEN Max(0, Min(100, StatsOf(c)[i] + d[i])) ELSE StatsOf(c)[i]])

\* the five draws rng.choice([0, 1, 2, 3]) of _buff_card / _nerf_card
DeltaDraws(rng) ==
    LET v1 == NextRng(rng)
        v2 == NextRng(v1)
        v3 == NextRng(v2)
        v4 == NextRng(v3)
        v5 == NextRng(v4)
    IN  [val |-> <<Below(v1, 4), Below(v2, 4), Below(v3, 4), Below(v4, 4), Below(v5, 4)>>,
         rng |-> v5]

\* _buff_card(c): [val (the card), deltas, rng]
BuffCard(c, rng) ==
    LET d == DeltaDraws(rng)
    IN  [val |-> ApplyDeltas(c, d.val), deltas |-> d.val, rng |-> d.rng]

\* _nerf_card(c)
NerfCard(c, rng) ==
    LET d == DeltaDraws(rng)
        neg == [i \in 1..5 |-> -d.val[i]]
    IN  [val |-> ApplyDeltas(c, neg), deltas |-> neg, rng |-> d.rng]

\* max(8, len(self.cards)//20): 8 cards for 30 teams
PatchMin == Max(1, (8 * NumTeams) \div 30)
PatchTargets(L) == Max(PatchMin, Len(L.card_order) \div 20)

\* the key (pick_map[c.id], usage_map[c.id]) of the two sorts
PatchKey(L, c) ==
    LET pk == PickRatePct(c, L.season)
        us == UsagePct(c)
    IN  <<pk[1], pk[2], us[1], us[2]>>

\* low_usage / high_usage: the ids of the cards to buff / to nerf
LowUsage(L) ==
    LET cl == CardList(L)
        keys == [i \in 1..Len(cl) |-> PatchKey(L, cl[i])]
    IN  Take(SortByKey(L.card_order, keys, FALSE), PatchTargets(L))
HighUsage(L) ==
    LET cl == CardList(L)
        keys == [i \in 1..Len(cl) |-> PatchKey(L, cl[i])]
    IN  Take(SortByKey(L.card_order, keys, TRUE), PatchTargets(L))

\* card.compute_ovr(), the ovr_history entry and the reaction that follow
\* _buff_card / _nerf_card in the two loops
Repatched(c, season) ==
    LET after == ComputeOvr(c)
    IN  [c EXCEPT !.ovr = after,
                  !.ovr_history = Append(@, <<season, after>>),
                  !.patch_reactions = @ + 1]

\* the note and the league once the card c2 is the patched card: r is the
\* result of _buff_card / _nerf_card
PatchNoted(g, cid, buff, r, c2) ==
    [L |-> [g.L EXCEPT !.rng = r.rng, !.cards[cid] = c2],
     notes |-> Append(g.notes,
                 [season |-> g.L.season, card_id |-> cid, stat_deltas |-> r.deltas,
                  ovr_before |-> g.L.cards[cid].ovr, ovr_after |-> c2.ovr,
                  reason |-> IF buff THEN "buff_low_usage" ELSE "nerf_high_usage"])]

\* what follows _buff_card / _nerf_card in the pass
PatchedCard(g, cid, buff, r) == PatchNoted(g, cid, buff, r, Repatched(r.val, g.L.season))

\* one pass of "for card in low_usage" (buff = TRUE) or "for card in high_usage";
\* g is [L, notes]
PatchOneCard(g, cid, buff) ==
    PatchedCard(g, cid, buff,
                IF buff THEN BuffCard(g.L.cards[cid], g.L.rng)
                ELSE NerfCard(g.L.cards[cid], g.L.rng))

\* the passes lo..hi of "for card in low_usage" / "for card in high_usage"
RECURSIVE PatchCards(_, _, _, _, _)
PatchCards(lo, hi, ids, buff, g) ==
    IF lo > hi THEN g
    ELSE IF lo = hi THEN PatchOneCard(g, ids[lo], buff)
    ELSE LET mid == (lo + hi) \div 2
             g1 == PatchCards(lo, mid, ids, buff, g)
         IN  Then(g1, PatchCards(mid + 1, hi, ids, buff, g1))

\* the clamp max(0.95, min(1.10, ...)) of a shifted power_mult, in hundredths
SynMultMin == 95
SynMultMax == 110

\* the shift without the clamp: s.power_mult = round(s.power_mult + shift, 3)
ShiftMultUnclamped(power_mult, shift) == power_mult + shift

\* s.power_mult = max(0.95, min(1.10, round(s.power_mult + shift, 3)))
ShiftMult(power_mult, shift) == Max(SynMultMin, Min(SynMultMax, power_mult + shift))

\* rng.choice([-0.02, -0.01, 0.01, 0.02]), in hundredths
SynShifts == <<-2, -1, 1, 2>>

\* the note and the league once the shifted power_mult is after; v is the
\* generator after the draw
ShiftedSynergy(g, code, v, after) ==
    [L |-> [g.L EXCEPT !.rng = v,
                       !.synergies[code].power_mult = after,
                       !.synergies[code].history = Append(@, <<g.L.season, after>>)],
     notes |-> Append(g.notes,
                 [season |-> g.L.season, card_id |-> None, reason |-> "synergy_shift",
                  code |-> code, before |-> g.L.synergies[code].power_mult,
                  after |-> after])]

\* one pass of "for s in syn_list[:change_count]"; g is [L, notes]
ShiftOneSynergy(g, code) ==
    ShiftedSynergy(g, code, NextRng(g.L.rng),
                   ShiftMult(g.L.synergies[code].power_mult,
                             SynShifts[1 + Below(NextRng(g.L.rng), Len(SynShifts))]))

RECURSIVE ShiftSynergies(_, _, _, _)
ShiftSynergies(lo, hi, codes, g) ==
    IF lo > hi THEN g
    ELSE IF lo = hi THEN ShiftOneSynergy(g, codes[lo])
    ELSE LET mid == (lo + hi) \div 2
             g1 == ShiftSynergies(lo, mid, codes, g)
         IN  Then(g1, ShiftSynergies(mid + 1, hi, codes, g1))

\* "for card in low_usage" / "for card in high_usage" over the ids
PatchAll(ids, buff, g) == PatchCards(1, Len(ids), ids, buff, g)

\* "for s in syn_list[:change_count]" over the codes
ShiftAll(codes, g) == ShiftSynergies(1, Len(codes), codes, g)

\* the notes returned: nerfed holds the card notes, shifted the synergy notes
PatchNotesOf(nerfed, shifted) ==
    [L |-> shifted.L, cards |-> nerfed.notes, synergies |-> shifted.notes]

\* change_count = rng.randint(2, 5) drawn as vc; order is the shuffled syn_list
ShiftCodes(nerfed, vc, order) ==
    PatchNotesOf(nerfed, ShiftAll(Take(order, RandInt(vc, 2, 5)),
                                  [L |-> [nerfed.L EXCEPT !.rng = vc], notes |-> <<>>]))

\* rng.shuffle(syn_list), then the draw of change_count
ShiftDrawn(nerfed, syn_list) == ShiftCodes(nerfed, NextRng(syn_list.rng), syn_list.val)

\* the synergy half of _generate_patch_notes, after the card loops
ShiftAfterPatch(nerfed) ==
    ShiftDrawn(nerfed, Shuffle([i \in 1..Len(nerfed.L.synergies) |-> i], nerfed.L.rng))

\* _generate_patch_notes: [L, cards (the card notes), synergies (the synergy notes)]
GeneratePatchNotes(L) ==
    ShiftAfterPatch(PatchAll(HighUsage(L), FALSE,
                             PatchAll(LowUsage(L), TRUE, [L |-> L, notes |-> <<>>])))

-----------------------------------------------------------------------------
(***************************************************************************)
(* run_full_season, phase by phase.  L.pc is the phase the call is about   *)
(* to run; "idle" is no call running.                                      *)
(***************************************************************************)
\* the league once the patch notes p of the season are made
StartSeason(L, p) ==
    [p.L EXCEPT !.pc = "draft", !.raised = FALSE,
                !.loc = [NoLocals EXCEPT !.hist =
                    [NewHistory(L.season) EXCEPT !.patch_notes = p.cards,
                                                 !.synergy_notes = p.synergies]]]

\* hist = SeasonHistory(season=self.season); 1) patch notes
PatchPhaseOp(L) == StartSeason(L, GeneratePatchNotes(L))

-----------------------------------------------------------------------------
(***************************************************************************)
(* The draft.                                                              *)
(***************************************************************************)
\* the body of "for t in self.teams.values()" at the head of _run_draft
ResetTeam(t) ==
    [t EXCEPT !.roster = <<>>, !.starters = <<>>, !.backup = None,
              !.wins = 0, !.losses = 0, !.crowns_for = 0, !.crowns_against = 0,
              !.season_card_crowns = <<>>, !.season_card_contrib = <<>>,
              !.rivalry_boost_games_left = 0]

\* _draft_lottery_order: [val (the order), rng]
DraftLotteryOrder(L) ==
    LET names == Shuffle(L.team_order, L.rng)
        perf == [i \in 1..Len(names.val) |->
                    IntKey(L.teams[names.val[i]].wins - L.teams[names.val[i]].losses)]
    IN  IF L.history # <<>>
        THEN [val |-> SortByKey(names.val, perf, FALSE), rng |-> names.rng]
        ELSE names

\* pass k (1-based) of "for _ in range(count)" of _generate_rookies, the module's
\* _card_id_counter being ctr at the first pass
RookiePass(k, ctr, L) ==
    LET cid == ctr + k - 1
        made == RookieCard(cid, L.season, L.rng)
    IN  [L EXCEPT !.rng = made.rng,
                  !.cards = DictSet(@, cid, made.val),
                  !.card_order = KeysSet(@, cid)]
RECURSIVE GenerateRookies(_, _, _, _)
GenerateRookies(lo, hi, ctr, L) ==
    IF lo > hi THEN L
    ELSE IF lo = hi THEN RookiePass(lo, ctr, L)
    ELSE LET mid == (lo + hi) \div 2
             L1 == GenerateRookies(lo, mid, ctr, L)
         IN  Then(L1, GenerateRookies(mid + 1, hi, ctr, L1))

\* board = [c for c in self.cards.values() if c.seasons_left > 0], as card ids
Board(L) == SelectSeq(L.card_order, LAMBDA cid : L.cards[cid].seasons_left > 0)

\* _run_draft up to the first pick: the reset, the lottery, the rookie class,
\* the board and the combine view (one draw per card of rookies + board)
RunDraftStartOp(L, ctr) ==
    LET L1 == [L EXCEPT !.teams = [n \in DOMAIN L.teams |-> ResetTeam(L.teams[n])]]
        order == DraftLotteryOrder(L1)
        L2 == GenerateRookies(1, RookieClass, ctr, [L1 EXCEPT !.rng = order.rng])
        board == Board(L2)
    IN  [L2 EXCEPT !.rng = Adv(L2.rng, RookieClass + Len(board)),
                   !.pc = "pick", !.drafts = @ + 1, !.loc.clock = <<>>,
                   !.loc.order = order.val, !.loc.board = board, !.loc.taken = {},
                   !.loc.rnd = 0, !.loc.pick_idx = 1, !.loc.picks = <<>>]

\* a draft whose rounds all run in lottery order: snake = order
SnakeForward(order, rnd) == order

\* snake = order if rnd % 2 == 0 else list(reversed(order))
Snake(order, rnd) == IF rnd % 2 = 0 THEN order ELSE Reverse(order)

\* candidates without the test "c.id not in taken"
CandidatesAnyOwner(L) ==
    SelectSeq(L.loc.board, LAMBDA cid : L.cards[cid].seasons_left > 0)

\* candidates = [c for c in board if c.id not in taken and c.seasons_left > 0]
Candidates(L) ==
    SelectSeq(L.loc.board,
              LAMBDA cid : cid \notin L.loc.taken /\ L.cards[cid].seasons_left > 0)

\* synergy_fit_score(card), in millionths
SynergyFitScore(L, team, cid) ==
    LET current_starters == [i \in 1..Len(team.starters) |-> L.cards[team.starters[i]]]
    IN  EffectiveSynergyMultiplier(L.synergies,
            Take(current_starters \o <<L.cards[cid]>>, STARTERS)) - One

\* rng.uniform(a, b) = a + (b - a) * random() for the draw v, in millionths,
\* to five decimal places
Uniform(v, a, b) == a + (((b - a) \div 10) * ((10000 * v) \div RngMod)) \div 1000

\* the key of max(candidates, key=...) for a candidate, in millionths:
\* ovr / 100 + synergy_fit_score + value_score * 0.5 + style_bias; v is the
\* candidate's draw (read by a risk_taker only)
PickKey(L, team, cid, rnd, v) ==
    LET ovr == L.cards[cid].ovr
        fit == SynergyFitScore(L, team, cid)
        round_bias == Max(0, 3 - rnd) * 2
        value_half == ovr * 5000 + round_bias * 50000
        base == ovr * 10000 + fit + value_half
    IN  CASE team.gm_style = "star_chaser" -> base + ovr * 10000
          [] team.gm_style = "synergy_focused" -> base + fit * 5
          [] team.gm_style = "risk_taker" -> base + Uniform(v, -50000, 50000)
          [] OTHER -> base

\* _choose_best_pick: [pick (a card id, or None), rng]
ChooseBestPick(L, team_name, rnd) ==
    LET team == L.teams[team_name]
        candidates == Candidates(L)
        n == Len(candidates)
        risky == team.gm_style = "risk_taker"
        keys == [j \in 1..n |->
                    PickKey(L, team, candidates[j], rnd, IF risky THEN Adv(L.rng, j) ELSE 0)]
        best == CHOOSE j \in 1..n :
                    \A i \in 1..n : keys[i] < keys[j] \/ (keys[i] = keys[j] /\ i >= j)
    IN  IF n = 0 THEN [pick |-> None, rng |-> L.rng]
        ELSE [pick |-> candidates[best], rng |-> IF risky THEN Adv(L.rng, n) ELSE L.rng]

\* a draft one round short: range(rounds - 1)
RoundsShort == ROSTER_SIZE - 1

\* rounds = ROSTER_SIZE
rounds == ROSTER_SIZE

\* one pass of "for team_name in snake" of _run_draft
DraftPickOp(L) ==
    LET rnd == L.loc.rnd
        snake == Snake(L.loc.order, rnd)
        team_name == snake[L.loc.pick_idx]
        r == ChooseBestPick(L, team_name, rnd)
        last == L.loc.pick_idx >= Len(snake)
        L1 == [L EXCEPT !.rng = r.rng,
                        !.loc.clock = Append(@, <<rnd, team_name>>),
                        !.loc.pick_idx = IF last THEN 1 ELSE @ + 1,
                        !.loc.rnd = IF last THEN @ + 1 ELSE @,
                        !.pc = IF last /\ rnd + 1 >= rounds THEN "starters" ELSE "pick"]
    IN  IF r.pick = None THEN L1
        ELSE [L1 EXCEPT !.teams[team_name].roster = Append(@, r.pick),
                        !.loc.taken = @ \cup {r.pick},
                        !.loc.picks = Append(@, [rnd |-> rnd, team |-> team_name,
                                                 card |-> r.pick])]

\* starters and backup taken in pick order, without the sort by ovr
SetStartersUnsorted(k, L) ==
    LET name == L.team_order[k]
        roster == L.teams[name].roster
    IN  [L EXCEPT !.teams[name].starters = Take(roster, STARTERS),
                  !.teams[name].backup =
                      IF Len(roster) > STARTERS THEN roster[STARTERS + 1] ELSE None]

\* pass k of "for t in self.teams.values()" at the end of _run_draft: the
\* starters and the backup of the k-th team
SetStarters(k, L) ==
    LET name == L.team_order[k]
        roster == L.teams[name].roster
        keys == [i \in 1..Len(roster) |-> IntKey(L.cards[roster[i]].ovr)]
        picked == SortByKey(roster, keys, TRUE)
    IN  [L EXCEPT !.teams[name].starters = Take(picked, STARTERS),
                  !.teams[name].backup =
                      IF Len(picked) > STARTERS THEN picked[STARTERS + 1] ELSE None]

\* the teams, in the order of self.teams, that hold card cid on their roster
HoldersOf(L, cid) ==
    SelectSeq(L.team_order, LAMBDA name : cid \in Range(L.teams[name].roster))

\* "for cid in t.roster: pick_seasons += 1; teams_history.append(t.name)" over
\* all teams, card by card
CountPicks(L) ==
    [L EXCEPT !.cards = [cid \in DOMAIN L.cards |->
        LET holders == HoldersOf(L, cid)
            times == [i \in 1..Len(holders) |->
                Cardinality({j \in DOMAIN L.teams[holders[i]].roster :
                                L.teams[holders[i]].roster[j] = cid})]
        IN  [L.cards[cid] EXCEPT
                !.pick_seasons = @ + SumSeq(times),
                !.teams_history = @ \o holders]]]

RECURSIVE SetAllStarters(_, _, _)
SetAllStarters(lo, hi, L) ==
    IF lo > hi THEN L
    ELSE IF lo = hi THEN SetStarters(lo, L)
    ELSE LET mid == (lo + hi) \div 2
             L1 == SetAllStarters(lo, mid, L)
         IN  Then(L1, SetAllStarters(mid + 1, hi, L1))

\* _letter_from_score for the score num / den
LetterFromScore(num, den) ==
    CASE num >= 90 * den -> "A+"
      [] num >= 85 * den -> "A"
      [] num >= 80 * den -> "A-"
      [] num >= 75 * den -> "B+"
      [] num >= 70 * den -> "B"
      [] num >= 65 * den -> "B-"
      [] num >= 60 * den -> "C+"
      [] num >= 55 * den -> "C"
      [] num >= 50 * den -> "C-"
      [] num >= 45 * den -> "D+"
      [] num >= 40 * den -> "D"
      [] OTHER -> "F"

Letters == {"A+", "A", "A-", "B+", "B", "B-", "C+", "C", "C-", "D+", "D", "F"}

\* the grade with the sum of the picks' ovr where the mean belongs
DraftGradeOfSummed(L, team_name) ==
    LET t == L.teams[team_name]
        n == Len(t.roster)
        total == SumSeq([i \in 1..n |-> L.cards[t.roster[i]].ovr])
        starters == [i \in 1..Len(t.starters) |-> L.cards[t.starters[i]]]
        fit == EffectiveSynergyMultiplier(L.synergies, starters) - One
        num == GRADE_W_OVR * total * n * 10000
               + GRADE_W_SYNERGY * n * (500000 + fit)
               + GRADE_W_VALUE * n * 500000
        den == n * 1000000
    IN  IF n = 0
        THEN [team |-> team_name, letter |-> "C", score_num |-> 75, score_den |-> 1]
        ELSE [team |-> team_name, letter |-> LetterFromScore(num, den),
              score_num |-> num, score_den |-> den]

\* one DraftGrade of _compute_draft_grades; the score is score_num / score_den.
\* value = avg_ovr - league_avg is the difference of one mean with itself, 0.
DraftGradeOf(L, team_name) ==
    LET t == L.teams[team_name]
        n == Len(t.roster)
        total == SumSeq([i \in 1..n |-> L.cards[t.roster[i]].ovr])
        starters == [i \in 1..Len(t.starters) |-> L.cards[t.starters[i]]]
        fit == EffectiveSynergyMultiplier(L.synergies, starters) - One
        num == GRADE_W_OVR * total * 10000
               + GRADE_W_SYNERGY * n * (500000 + fit)
               + GRADE_W_VALUE * n * 500000
        den == n * 1000000
    IN  IF n = 0
        THEN [team |-> team_name, letter |-> "C", score_num |-> 75, score_den |-> 1]
        ELSE [team |-> team_name, letter |-> LetterFromScore(num, den),
              score_num |-> num, score_den |-> den]

\* _compute_draft_grades(order)
ComputeDraftGrades(L, order) == [i \in 1..Len(order) |-> DraftGradeOf(L, order[i])]

\* the end of _run_draft (starters, backups, pick counts, grades) and
\* hist.draft_grades = draft_grades
DraftFinishOp(L) ==
    LET L1 == CountPicks(SetAllStarters(1, Len(L.team_order), L))
    IN  [L1 EXCEPT !.pc = "schedule",
                   !.loc.hist.draft_grades = ComputeDraftGrades(L1, L.loc.order)]

-----------------------------------------------------------------------------
(***************************************************************************)
(* Schedule and game simulation.  Powers and luck are held to four decimal *)
(* places, scores to six.                                                  *)
(***************************************************************************)
\* a schedule whose inner loop starts at 0 instead of i + 1: every ordered pair,
\* a team against itself included
MakeScheduleAllPairs(L) ==
    LET teams == Shuffle(L.team_order, L.rng)
        n == Len(teams.val)
        all == [k \in 1..(n * n) |->
                   <<teams.val[1 + ((k - 1) \div n)], teams.val[1 + ((k - 1) % n)]>>]
    IN  Shuffle(all, teams.rng)

\* _make_schedule: [val (the (home, away) pairs), rng]
MakeSchedule(L) ==
    LET teams == Shuffle(L.team_order, L.rng)
    IN  Shuffle(Combinations2(teams.val), teams.rng)

\* _team_effective_power(starters), in ten-thousandths; starters is not empty
TeamEffectivePower(L, starters) ==
    LET n == Len(starters)
        mean_ovr == (SumSeq([i \in 1..n |-> L.cards[starters[i]].ovr]) * 100) \div n
        syn_mult == EffectiveSynergyMultiplier(L.synergies,
                        [i \in 1..n |-> L.cards[starters[i]]]) \div 100
    IN  (mean_ovr * syn_mult) \div 10000

\* eff * (1.0 + RIVALRY_WIN_BUFF_PCT) when the boost is on, eff otherwise
Boosted(eff, boost) == IF boost THEN (eff * (100 + RIVALRY_WIN_BUFF_PCT)) \div 100 ELSE eff

\* luck = 0.9 + rng.random() * 0.2 for the draw v, in ten-thousandths
Luck(v) == 9000 + (2000 * v) \div RngMod

\* POWER_WEIGHT * eff + LUCK_WEIGHT * luck, in millionths
GameScore(eff, luck) == POWER_WEIGHT * eff + LUCK_WEIGHT * luck

\* each side's crowns taken as int(3 * share) of its own score, without the
\* tie-breaker crown
CrownsTruncated(score_home, score_away) ==
    LET base == Max(100000, score_home + score_away)
    IN  <<Max(0, Min(3, (3 * score_home) \div base)),
          Max(0, Min(3, (3 * score_away) \div base))>>

\* the conversion with home_crowns = int(3 * p_home), without round()
CrownsFromScoresFloored(score_home, score_away) ==
    LET base == Max(100000, score_home + score_away)
        h0 == (3 * score_home) \div base
    IN  <<Max(0, Min(3, h0)), Max(0, Min(3, 3 - h0))>>

\* the conversion of the two scores to crowns: <<home_crowns, away_crowns>>
CrownsFromScores(score_home, score_away) ==
    LET base == Max(100000, score_home + score_away)
        h0 == RoundHalfEven(3 * score_home, base)
        a0 == 3 - h0
        h1 == IF h0 = a0 THEN (IF score_home >= score_away THEN h0 + 1 ELSE h0 - 1) ELSE h0
        a1 == IF h0 = a0 THEN (IF score_home >= score_away THEN a0 - 1 ELSE a0 + 1) ELSE a0
    IN  <<Max(0, Min(3, h1)), Max(0, Min(3, a1))>>

\* rng.choices(pool, weights=weights, k=1)[0] for the draw v: the index (1-based)
\* bisect(cum_weights, random() * total, 0, len(pool) - 1)
ChoicesIndex(weights, v) ==
    LET n == Len(weights)
        cum == [i \in 1..n |-> SumSeq(SubSeq(weights, 1, i))]
    IN  1 + Cardinality({i \in 1..(n - 1) : cum[i] * RngMod <= v * cum[n]})

\* details[team_name][pick.id] = details[team_name].get(pick.id, 0) + 1, the dict
\* being a sequence of <<card id, crowns>> in insertion order
Tally(dist, cid) ==
    IF \E i \in DOMAIN dist : dist[i][1] = cid
    THEN [i \in DOMAIN dist |-> IF dist[i][1] = cid THEN <<cid, dist[i][2] + 1>> ELSE dist[i]]
    ELSE Append(dist, <<cid, 1>>)
TallyGet(dist, cid) ==
    IF \E i \in DOMAIN dist : dist[i][1] = cid
    THEN dist[CHOOSE i \in DOMAIN dist : dist[i][1] = cid][2]
    ELSE 0

\* "for _ in range(crowns)": g is [dist, highlights, rng]
RECURSIVE CrownLoop(_, _, _, _)
CrownLoop(k, pool, weights, g) ==
    IF k = 0 THEN g
    ELSE LET v1 == NextRng(g.rng)
             v2 == NextRng(v1)
             pick == pool[ChoicesIndex(weights, v1)]
             g1 == [dist |-> Tally(g.dist, pick),
                    highlights |-> g.highlights + (IF Chance(v2, 25) THEN 1 ELSE 0),
                    rng |-> v2]
         IN  CrownLoop(k - 1, pool, weights, g1)

\* "for c in pool": the tallies of the k-th card of the pool and those after it;
\* contributions are counted in sixths
RECURSIVE PoolUpdates(_, _, _, _, _, _)
PoolUpdates(k, pool, team_name, dist, crowns, L) ==
    IF k > Len(pool) THEN L
    ELSE LET cid == pool[k]
             got == TallyGet(dist, cid)
             share == (6 * got) \div Max(1, crowns)
             L1 == [L EXCEPT !.cards[cid].games_played = @ + 1,
                             !.teams[team_name].season_card_contrib =
                                 DictSet(@, cid, DictGet(@, cid) + share)]
             L2 == IF got = 0 THEN L1
                   ELSE [L1 EXCEPT !.cards[cid].crowns_total = @ + got,
                                   !.cards[cid].crowns_high = Max(@, got),
                                   !.cards[cid].usage_games = @ + 1,
                                   !.teams[team_name].season_card_crowns =
                                       DictSet(@, cid, DictGet(@, cid) + got)]
         IN  PoolUpdates(k + 1, pool, team_name, dist, crowns, L2)

\* one pass of "for team_name, starters, crowns in [...]": g is [L, details, highlights]
SideOp(g, team_name, starters, crowns) ==
    LET team == g.L.teams[team_name]
        v == NextRng(g.L.rng)
        sub == team.backup # None /\ Chance(v, 25)
        rng0 == IF team.backup # None THEN v ELSE g.L.rng
        pool == IF sub THEN Take(starters, 2) \o <<team.backup>> ELSE starters
        weights == [i \in 1..Len(pool) |->
                       Max(1, g.L.cards[pool[i]].atk + g.L.cards[pool[i]].speed
                              + g.L.cards[pool[i]].hit_speed)]
        c == CrownLoop(crowns, pool, weights,
                       [dist |-> <<>>, highlights |-> g.highlights, rng |-> rng0])
        L1 == PoolUpdates(1, pool, team_name, c.dist, crowns, [g.L EXCEPT !.rng = c.rng])
    IN  [L |-> L1, details |-> Append(g.details, c.dist), highlights |-> c.highlights]

\* a boost counter that is never lowered
SpendBoostNever(left) == left

\* if t.rivalry_boost_games_left > 0: t.rivalry_boost_games_left -= 1
SpendBoost(left) == IF left > 0 THEN left - 1 ELSE left

\* the draws of "for sec in range(0, 180, 10): jitter = self.rng.uniform(...)"
WinSeriesDraws == 18

\* mult_home / mult_away carry the boost: t.rivalry_boost_games_left > 0
HasBoost(L, team_name) == L.teams[team_name].rivalry_boost_games_left > 0

\* both teams' boost counters after "rivalry_boost_games_left -= 1"
SpendBoosts(L, home, away) ==
    [L EXCEPT !.teams[home].rivalry_boost_games_left = SpendBoost(@),
              !.teams[away].rivalry_boost_games_left = SpendBoost(@)]

\* score = POWER_WEIGHT * eff * mult + LUCK_WEIGHT * luck for the luck draw v
SideScore(L, team_name, v) ==
    GameScore(Boosted(TeamEffectivePower(L, L.teams[team_name].starters),
                      HasBoost(L, team_name)),
              Luck(v))

\* the end of _simulate_game: L3 is the league after the records and the
\* rivalry update, res the GameResult
GameRecorded(L, L3, home, away, res, won_home, won_away) ==
    [L |-> [L3 EXCEPT
              !.recent[home] = Take(<<[won_rival |-> won_home, draft |-> L.drafts]>> \o @, 2),
              !.recent[away] = Take(<<[won_rival |-> won_away, draft |-> L.drafts]>> \o @, 2),
              !.rng = Adv(@, WinSeriesDraws),
              !.last_game = res],
     res |-> res, raised |-> FALSE]

\* records, crowns and the rivalry update, given both sides' distributions sa
GameRecords(L, home, away, week, home_crowns, away_crowns, sa, home_won, rivalry) ==
    GameRecorded(L,
        [sa.L EXCEPT
           !.teams[home].wins = IF home_won THEN @ + 1 ELSE @,
           !.teams[away].losses = IF home_won THEN @ + 1 ELSE @,
           !.teams[away].wins = IF home_won THEN @ ELSE @ + 1,
           !.teams[home].losses = IF home_won THEN @ ELSE @ + 1,
           !.teams[home].crowns_for = @ + home_crowns,
           !.teams[home].crowns_against = @ + away_crowns,
           !.teams[away].crowns_for = @ + away_crowns,
           !.teams[away].crowns_against = @ + home_crowns,
           !.teams[home].rivals = IF rivalry THEN [@ EXCEPT ![away] = @ + RIVALRY_GAIN] ELSE @,
           !.teams[away].rivals = IF rivalry THEN [@ EXCEPT ![home] = @ + RIVALRY_GAIN] ELSE @,
           !.teams[home].rivalry_boost_games_left =
               IF rivalry /\ home_won THEN RIVALRY_WIN_BUFF_GAMES ELSE @,
           !.teams[away].rivalry_boost_games_left =
               IF rivalry /\ ~home_won THEN RIVALRY_WIN_BUFF_GAMES ELSE @],
        home, away,
        [season |-> L.season, week |-> week, home |-> home, away |-> away,
         home_crowns |-> home_crowns, away_crowns |-> away_crowns,
         details |-> sa.details, highlights |-> sa.highlights,
         rivalry_proc |-> rivalry, draft |-> L.drafts,
         boost_home |-> HasBoost(L, home), boost_away |-> HasBoost(L, away),
         prior_home |-> L.recent[home], prior_away |-> L.recent[away]],
        rivalry /\ home_won, rivalry /\ ~home_won)

\* the two passes of "for team_name, starters, crowns in [...]"
GameSides(L, home, away, week, home_crowns, away_crowns, sa) ==
    GameRecords(L, home, away, week, home_crowns, away_crowns, sa,
                home_crowns > away_crowns, away \in DOMAIN sa.L.teams[home].rivals)

\* the game once the crowns <<home_crowns, away_crowns>> are known
GameCrowns(L, home, away, week, crowns) ==
    GameSides(L, home, away, week, crowns[1], crowns[2],
              SideOp(SideOp([L |-> [SpendBoosts(L, home, away) EXCEPT
                                      !.rng = NextRng(NextRng(L.rng))],
                             details |-> <<>>, highlights |-> 0],
                            home, L.teams[home].starters, crowns[1]),
                     away, L.teams[away].starters, crowns[2]))

\* _simulate_game(home, away, week): [L, res, raised].  statistics.mean raises on
\* empty starters, after the boost counters have been lowered; raised is then
\* TRUE and res is None.  res is the GameResult; its fields boost_home and
\* boost_away record whether mult_home and mult_away carried the rivalry boost,
\* prior_home and prior_away the two teams' recent games before this one, and
\* draft the number of _run_draft calls made before it.
SimulateGame(L, home, away, week) ==
    IF L.teams[home].starters = <<>> \/ L.teams[away].starters = <<>>
    THEN [L |-> [SpendBoosts(L, home, away) EXCEPT !.last_game = NoGame],
          res |-> NoGame, raised |-> TRUE]
    ELSE GameCrowns(L, home, away, week,
                    CrownsFromScores(SideScore(L, home, NextRng(L.rng)),
                                     SideScore(L, away, NextRng(NextRng(L.rng)))))

\* the exception leaves run_full_season: no call is running any more
Raise(L) == [L EXCEPT !.pc = "idle", !.raised = TRUE, !.loc = NoLocals]

\* 3) schedule = self._make_schedule(); week = 1
MakeScheduleOp(L) ==
    LET sch == MakeSchedule(L)
    IN  [L EXCEPT !.rng = sch.rng, !.loc.schedule = sch.val, !.loc.week = 1,
                  !.pc = IF sch.val = <<>> THEN "seed" ELSE "game"]

\* one pass of "for (home, away) in schedule"
PlayGameOp(L) ==
    LET week == L.loc.week
        g == SimulateGame(L, L.loc.schedule[week][1], L.loc.schedule[week][2], week)
    IN  IF g.raised THEN Raise(g.L)
        ELSE [g.L EXCEPT !.game_log = Append(@, g.res),
                         !.loc.week = week + 1,
                         !.pc = IF week >= Len(L.loc.schedule) THEN "seed" ELSE "game"]

-----------------------------------------------------------------------------
(***************************************************************************)
(* Playoffs.                                                               *)
(***************************************************************************)
\* the sort without reverse=True: worst team first
StandingsWorstFirst(L) ==
    LET keys == [i \in 1..Len(L.team_order) |->
                    LET t == L.teams[L.team_order[i]]
                    IN  <<t.wins, 1, t.crowns_for - t.crowns_against, 1>>]
    IN  SortByKey(L.team_order, keys, FALSE)

\* teams.sort(key=lambda t: (t.wins, t.crowns_for - t.crowns_against), reverse=True)
Standings(L) ==
    LET keys == [i \in 1..Len(L.team_order) |->
                    LET t == L.teams[L.team_order[i]]
                    IN  <<t.wins, 1, t.crowns_for - t.crowns_against, 1>>]
    IN  SortByKey(L.team_order, keys, TRUE)

\* get_standings: team, gm, record (wins, losses), cf, ca and rings of every
\* team, best first
get_standings(L) ==
    [i \in 1..Len(L.team_order) |->
        LET t == L.teams[Standings(L)[i]]
        IN  [team |-> t.name, gm |-> t.gm_name, record |-> <<t.wins, t.losses>>,
             cf |-> t.crowns_for, ca |-> t.crowns_against, rings |-> t.rings]]

\* _seed_playoffs: the pairs (top[i], top[-(i+1)]) of the first PlayoffField teams
SeedPlayoffs(L) ==
    LET top == Take(Standings(L), PlayoffField)
    IN  [i \in 1..PlayoffPairs |-> <<top[i], top[Len(top) + 1 - i]>>]

\* list(zip(names[::2], names[1::2]))
ZipPairs(names) == [i \in 1..(Len(names) \div 2) |-> <<names[2 * i - 1], names[2 * i]>>]

\* the end of _run_playoffs (champion = finalists[0], rings, dynasty points),
\* then hist.champion and hist.finalists are set after the awards; indexing
\* self.teams with a champion of None raises
CrownChampion(L) ==
    IF L.loc.finalists[1] = NoTeam THEN Raise(L)
    ELSE [L EXCEPT !.teams[L.loc.finalists[1]].rings = @ + 1,
                   !.teams = [t \in DOMAIN @ |->
                                [@[t] EXCEPT !.dynasty_points =
                                    IF t = L.loc.finalists[1] THEN @ + 3
                                    ELSE IF t = L.loc.finalists[2] THEN @ + 2
                                    ELSE @]],
                   !.pc = "awards"]

\* 4) bracket = self._seed_playoffs(); self.playoff_bracket = bracket.copy();
\* the head of _run_playoffs
SeedPlayoffsOp(L) ==
    LET bracket == SeedPlayoffs(L)
        L1 == [L EXCEPT !.playoff_bracket = bracket,
                        !.loc.current = bracket, !.loc.finalists = <<NoTeam, NoTeam>>,
                        !.loc.series_idx = 1, !.loc.wins_a = 0, !.loc.wins_b = 0,
                        !.loc.next_round = <<>>]
    IN  IF Len(bracket) > 1 THEN [L1 EXCEPT !.pc = "series"] ELSE CrownChampion(L1)

\* what follows a playoff game that left the series at wins_a : wins_b; Lg is
\* the league after the game
SeriesAfter(L, Lg, a, b, wins_a, wins_b) ==
    LET next_round == Append(L.loc.next_round, IF wins_a > wins_b THEN a ELSE b)
        current == ZipPairs(next_round)
        L3 == [Lg EXCEPT !.loc.wins_a = 0, !.loc.wins_b = 0,
                         !.loc.next_round = <<>>, !.loc.series_idx = 1,
                         !.loc.current = current,
                         !.loc.finalists = IF Len(current) = 1 THEN current[1] ELSE @]
    IN  IF wins_a < 3 /\ wins_b < 3
        THEN [Lg EXCEPT !.loc.wins_a = wins_a, !.loc.wins_b = wins_b]
        ELSE IF L.loc.series_idx < Len(L.loc.current)
        THEN [Lg EXCEPT !.loc.wins_a = 0, !.loc.wins_b = 0,
                        !.loc.next_round = next_round, !.loc.series_idx = @ + 1]
        ELSE IF Len(current) > 1 THEN L3
        ELSE CrownChampion(L3)

\* "if res.home == a.name and res.home_crowns > res.away_crowns: wins_a += 1
\* else: wins_b += 1" for the game g of a against b
SeriesGame(L, a, b, g, a_won) ==
    IF g.raised THEN Raise(g.L)
    ELSE SeriesAfter(L, g.L, a, b,
                     IF a_won THEN L.loc.wins_a + 1 ELSE L.loc.wins_a,
                     IF a_won THEN L.loc.wins_b ELSE L.loc.wins_b + 1)

\* one pass of "while wins_a < 3 and wins_b < 3" between a and b
PlaySeriesGame(L, a, b, g) ==
    SeriesGame(L, a, b, g,
               ~g.raised /\ g.res.home = a /\ g.res.home_crowns > g.res.away_crowns)

\* one pass of "while wins_a < 3 and wins_b < 3" and, when it ends the series,
\* the round or the playoffs, what follows it in _run_playoffs
PlayoffGameOp(L) ==
    PlaySeriesGame(L, L.loc.current[L.loc.series_idx][1],
                   L.loc.current[L.loc.series_idx][2],
                   SimulateGame(L, L.loc.current[L.loc.series_idx][1],
                                L.loc.current[L.loc.series_idx][2], 0))

-----------------------------------------------------------------------------
(***************************************************************************)
(* Awards, leaders, retirements.                                           *)
(***************************************************************************)
\* the first index of s whose key is the greatest, None if s is empty: the
\* loops "if score > best_score: best_score, best = score, c"; keys are
\* fractions <<num, den>> with den > 0
FirstMax(keys) ==
    IF keys = <<>> THEN None
    ELSE CHOOSE j \in DOMAIN keys : \A i \in DOMAIN keys :
            \/ keys[i][1] * keys[j][2] < keys[j][1] * keys[i][2]
            \/ (keys[i][1] * keys[j][2] = keys[j][1] * keys[i][2] /\ i >= j)

\* the sequences of s, concatenated
RECURSIVE Flatten(_)
Flatten(s) == IF s = <<>> THEN <<>> ELSE Head(s) \o Flatten(Tail(s))

\* MVP: the roster card with the greatest crowns_total * team_factor, None if
\* no team holds a card; team_factor = 1.0 + wins / max(1, wins + losses)
Mvp(L) ==
    LET ids == Flatten([i \in 1..Len(L.team_order) |-> L.teams[L.team_order[i]].roster])
        teamOf == Flatten([i \in 1..Len(L.team_order) |->
                     [j \in 1..Len(L.teams[L.team_order[i]].roster) |-> L.team_order[i]]])
        keys == [k \in 1..Len(ids) |->
                    LET t == L.teams[teamOf[k]]
                        games == Max(1, t.wins + t.losses)
                    IN  <<L.cards[ids[k]].crowns_total * (games + t.wins), games>>]
        best == FirstMax(keys)
    IN  IF best = None THEN None ELSE ids[best]

\* Most Improved: the card with the greatest c.ovr - c.ovr_history[-2][1]
MostImproved(L) ==
    LET ids == SelectSeq(L.card_order, LAMBDA cid : Len(L.cards[cid].ovr_history) >= 2)
        keys == [k \in 1..Len(ids) |->
                    LET c == L.cards[ids[k]]
                    IN  <<c.ovr - c.ovr_history[Len(c.ovr_history) - 1][2], 1>>]
        best == FirstMax(keys)
    IN  IF best = None THEN None ELSE ids[best]

\* sorted(cards, key=lambda c: c.crowns_total, reverse=True) over the ids given
ByCrowns(L, ids) ==
    SortByKey(ids, [i \in 1..Len(ids) |-> IntKey(L.cards[ids[i]].crowns_total)], TRUE)

\* the sizes of the All-Team slices, of the All-Star list, of the MOTY list
\* and of the leader lists
ALL_TEAM_SIZE == 5
ALL_STAR_SIZE == 10
MOTY_SIZE == 6
LEADERS_SIZE == 10

\* s[a:b] of Python
Slice(s, a, b) == SubSeq(s, Min(a, Len(s)) + 1, Min(b, Len(s)))

\* the top performer of a game: the first card of g.details with the most crowns
TopCard(g) ==
    LET all == Flatten(g.details)
        best == FirstMax([i \in 1..Len(all) |-> <<all[i][2], 1>>])
    IN  IF best = None THEN None ELSE all[best][1]

\* MOTY: (i, top_card) for the first MOTY_SIZE games of the log with hype > 2
Moty(L) ==
    LET idx == SelectSeq([i \in 1..Len(L.game_log) |-> i], LAMBDA i :
                  /\ L.game_log[i].highlights
                       + Abs(L.game_log[i].home_crowns - L.game_log[i].away_crowns) * 2 > 2
                  /\ TopCard(L.game_log[i]) # None)
        first == Take(idx, MOTY_SIZE)
    IN  [k \in 1..Len(first) |-> <<first[k] - 1, TopCard(L.game_log[first[k]])>>]

\* the number of entries of s equal to x
Count(s, x) == Cardinality({i \in DOMAIN s : s[i] = x})

\* _compute_awards: [L, awards]
ComputeAwards(L) ==
    LET best == Mvp(L)
        mip == MostImproved(L)
        all_sorted == ByCrowns(L, Board(L))
        first == Slice(all_sorted, 0, ALL_TEAM_SIZE)
        second == Slice(all_sorted, ALL_TEAM_SIZE, 2 * ALL_TEAM_SIZE)
        third == Slice(all_sorted, 2 * ALL_TEAM_SIZE, 3 * ALL_TEAM_SIZE)
        all_star == Slice(all_sorted, 0, ALL_STAR_SIZE)
        moty == Moty(L)
        motyCards == [k \in 1..Len(moty) |-> moty[k][2]]
        cards == [cid \in DOMAIN L.cards |->
            [L.cards[cid] EXCEPT
                !.awards = [@ EXCEPT
                    !.MVP = @ + (IF best = cid THEN 1 ELSE 0),
                    !.MIP = @ + (IF mip = cid THEN 1 ELSE 0),
                    !.ALL_TEAM = @ + Count(first \o second \o third, cid),
                    !.ALL_STAR = @ + Count(all_star, cid),
                    !.MOTY = @ + Count(motyCards, cid)],
                !.all_star_appearances = @ + Count(all_star, cid)]]
    IN  [L |-> [L EXCEPT !.cards = cards],
         awards |-> [season |-> L.season, mvp |-> best, most_improved |-> mip,
                     all_first |-> first, all_second |-> second, all_third |-> third,
                     moty |-> moty, all_stars |-> all_star]]

\* 5) awards = self._compute_awards(); hist.awards, hist.champion, hist.finalists
ComputeAwardsOp(L) ==
    LET a == ComputeAwards(L)
    IN  [a.L EXCEPT !.pc = "leaders",
                    !.loc.hist.awards = a.awards,
                    !.loc.hist.champion = L.loc.finalists[1],
                    !.loc.hist.finalists = L.loc.finalists]

\* _update_leaders_and_history(hist)
UpdateLeadersAndHistoryOp(L) ==
    LET ids == L.card_order
        n == Len(ids)
        contrib == SortByKey(ids, [i \in 1..n |-> IntKey(L.cards[ids[i]].contribution_sum)], TRUE)
        usage == SortByKey(ids, [i \in 1..n |->
                    LET u == UsagePct(L.cards[ids[i]]) IN <<u[1], u[2], 0, 1>>], TRUE)
        leaders == [crowns |-> Take(ByCrowns(L, ids), LEADERS_SIZE),
                    contribution |-> Take(contrib, LEADERS_SIZE),
                    usage |-> Take(usage, LEADERS_SIZE)]
    IN  [L EXCEPT !.history = Append(@, [L.loc.hist EXCEPT !.leaders = leaders]),
                  !.pc = "offseason"]

\* AWARD_POINTS
AWARD_POINTS == [MVP |-> 10, ALL_STAR |-> 5, MOTY |-> 3, MIP |-> 4, ALL_TEAM |-> 2]

\* _hof_score(c) as the fraction <<num, den>>:
\* career_ovr * 0.30 + cpg * 100 * 0.25 + cpg * 100 * 0.15 + award_points * 0.20
\* + champ_points * 0.10, with career_ovr = total / n and cpg = crowns / games
HofScore(L, c) ==
    LET n == Len(c.ovr_history)
        total == SumSeq([i \in 1..n |-> c.ovr_history[i][2]])
        games == Max(1, c.games_played)
        award_points == c.awards.MVP * AWARD_POINTS.MVP
                        + c.all_star_appearances * AWARD_POINTS.ALL_STAR
                        + c.awards.MOTY * AWARD_POINTS.MOTY
                        + c.awards.MIP * AWARD_POINTS.MIP
                        + c.awards.ALL_TEAM * AWARD_POINTS.ALL_TEAM
        played == Range(c.teams_history)
        names == SelectSeq(L.team_order, LAMBDA name : name \in played)
        champ_points == SumSeq([i \in 1..Len(names) |->
                            L.teams[names[i]].rings * CHAMPIONSHIP_POINTS])
    IN  IF n = 0
        THEN <<3 * c.ovr * games + 400 * c.crowns_total
               + 2 * award_points * games + champ_points * games, 10 * games>>
        ELSE <<3 * total * games + 400 * c.crowns_total * n
               + 2 * award_points * n * games + champ_points * n * games, 10 * n * games>>

\* score >= HOF_GUARANTEE
HofGuaranteed(sc) == sc[1] >= HOF_GUARANTEE * sc[2]
\* HOF_BUBBLE_MIN <= score < HOF_GUARANTEE
HofBubble(sc) == sc[1] >= HOF_BUBBLE_MIN * sc[2] /\ sc[1] < HOF_GUARANTEE * sc[2]

\* the first loop's body with the sign of the step reversed: c.seasons_left += 1
AgedBackwards(c, season) ==
    IF c.seasons_left > 0
    THEN [c EXCEPT !.seasons_left = @ + 1, !.ovr_history = Append(@, <<season, c.ovr>>)]
    ELSE c

\* if c.seasons_left > 0: c.seasons_left -= 1; c.ovr_history.append((season, c.ovr))
Aged(c, season) ==
    IF c.seasons_left > 0
    THEN [c EXCEPT !.seasons_left = @ - 1, !.ovr_history = Append(@, <<season, c.ovr>>)]
    ELSE c

\* _hof_score(c) raises TypeError where it reaches the body of
\* "for tname in set(c.teams_history)": the default Team(tname, "", "", "") of
\* self.teams.get lacks the required gm_rivalry
HofRaises(c) == c.teams_history # <<>>

\* _handle_retirements_and_rookies: [L, raised, checked].  The loop "for c in
\* retired" stops at the first card whose _hof_score raises; the cards before
\* it have had their check, and every card has aged.  checked lists the cards
\* _hof_score is called with.
HandleRetirements(L) ==
    LET aged == [cid \in DOMAIN L.cards |-> Aged(L.cards[cid], L.season)]
        L1 == [L EXCEPT !.cards = aged]
        retired == SelectSeq(L.card_order,
                       LAMBDA cid : aged[cid].seasons_left = 0 /\ ~aged[cid].legend)
        failing == {k \in DOMAIN retired : HofRaises(aged[retired[k]])}
        stop == IF failing = {} THEN Len(retired) + 1
                ELSE CHOOSE k \in failing : \A j \in failing : k <= j
        scored == SubSeq(retired, 1, stop - 1)
        checked == SubSeq(retired, 1, Min(stop, Len(retired)))
        bubble == SelectSeq(scored, LAMBDA cid : HofBubble(HofScore(L1, aged[cid])))
        DrawOf(cid) == Adv(L.rng, CHOOSE k \in 1..Len(bubble) : bubble[k] = cid)
        Inducted(cid) ==
            \/ HofGuaranteed(HofScore(L1, aged[cid]))
            \/ (HofBubble(HofScore(L1, aged[cid])) /\ Chance(DrawOf(cid), 50))
    IN  [L |-> [L1 EXCEPT !.rng = Adv(@, Len(bubble)),
                          !.cards = [cid \in DOMAIN aged |->
                              IF cid \in Range(scored) /\ Inducted(cid)
                              THEN [aged[cid] EXCEPT !.legend = TRUE] ELSE aged[cid]]],
         raised |-> failing # {}, checked |-> checked]

\* _decay_rivalries
DecayRivalries(L) ==
    [L EXCEPT !.teams = [n \in DOMAIN L.teams |->
        [L.teams[n] EXCEPT !.rivals =
            LET kept == {r \in DOMAIN @ : @[r] - RIVALRY_DECAY > 0}
            IN  [r \in kept |-> @[r] - RIVALRY_DECAY]]]]

\* 6) self._handle_retirements_and_rookies(); self.season += 1;
\* self._decay_rivalries(); return hist
OffseasonOp(L) ==
    LET r == HandleRetirements(L)
        L2 == DecayRivalries([r.L EXCEPT !.season = @ + 1])
    IN  IF r.raised THEN Raise(r.L)
        ELSE [L2 EXCEPT !.pc = "idle", !.loc = NoLocals]

-----------------------------------------------------------------------------
(***************************************************************************)
(* The public API for the UI.  A query is [val, L]: what it returns and    *)
(* the League it leaves behind.                                            *)
(***************************************************************************)
\* the target of "for h in self.history[::-1]: if h.season == season": the
\* latest SeasonHistory of that season; a SeasonHistory of season 0, with no
\* notes and no leaders, stands for target = None
HistoryOf(L, season) ==
    LET found == {i \in DOMAIN L.history : L.history[i].season = season}
    IN  IF found = {} THEN NewHistory(0)
        ELSE L.history[CHOOSE i \in found : \A j \in found : j <= i]

\* get_patch_notes(season); season = None is the default argument
get_patch_notes(L, season) ==
    LET target == HistoryOf(L, IF season = None THEN L.season ELSE season)
    IN  [val |-> [cards |-> target.patch_notes, synergies |-> target.synergy_notes],
         L |-> L]

\* _card_view(cid)
CardView(L, cid) ==
    [id |-> cid, name |-> L.cards[cid].name, ovr |-> L.cards[cid].ovr,
     archetype |-> L.cards[cid].archetype, atk_type |-> L.cards[cid].atk_type]

\* get_league_leaders(category, season)
get_league_leaders(L, category, season) ==
    LET target == HistoryOf(L, IF season = None THEN L.season ELSE season)
    IN  [val |-> IF target.season = 0 \/ category \notin DOMAIN target.leaders THEN <<>>
                 ELSE [i \in DOMAIN target.leaders[category] |->
                          CardView(L, target.leaders[category][i])],
         L |-> L]

\* get_playoff_bracket
get_playoff_bracket(L) == [val |-> L.playoff_bracket, L |-> L]

\* get_card_profile(card_id): the card's fields and the rookie badge
get_card_profile(L, cid) ==
    [val |-> [card |-> L.cards[cid], rookie |-> L.cards[cid].rookie_season = L.season],
     L |-> L]

\* get_synergies_table: the rules in the order of their codes
get_synergies_table(L) ==
    [val |-> [i \in DOMAIN L.synergies |->
                 [code |-> L.synergies[i].code, power_mult |-> L.synergies[i].power_mult,
                  history |-> L.synergies[i].history]],
     L |-> L]

\* get_rivalries(team_name): the rows of the team's rivals, greatest intensity first
get_rivalries(L, team_name) ==
    LET rivals == L.teams[team_name].rivals
        names == SelectSeq(L.team_order, LAMBDA n : n \in DOMAIN rivals)
        rows == [i \in DOMAIN names |->
                    [team |-> team_name, rival |-> names[i], intensity |-> rivals[names[i]]]]
    IN  [val |-> SortByKey(rows, [i \in DOMAIN rows |-> IntKey(rows[i].intensity)], TRUE),
         L |-> L]

\* get_last_draft_grades: the grades of the latest SeasonHistory that has any
get_last_draft_grades(L) ==
    LET found == {i \in DOMAIN L.history : L.history[i].draft_grades # <<>>}
    IN  [val |-> IF found = {} THEN <<>>
                 ELSE L.history[CHOOSE i \in found : \A j \in found : j <= i].draft_grades,
         L |-> L]

\* msgs[:50] of get_patch_reactions_feed
FEED_SIZE == 50

\* get_patch_reactions_feed: the last two reactions of every card, <<card id,
\* position in the card's patch_reactions>>, shuffled with self.rng
get_patch_reactions_feed(L) ==
    LET n == Len(L.card_order)
        last(cid) == Min(2, L.cards[cid].patch_reactions)
        slots == [j \in 1..(2 * n) |-> <<L.card_order[1 + (j - 1) \div 2], 1 + ((j - 1) % 2)>>]
        kept == SelectSeq(slots, LAMBDA m : m[2] <= last(m[1]))
        msgs == [j \in DOMAIN kept |->
                    <<kept[j][1],
                      L.cards[kept[j][1]].patch_reactions - last(kept[j][1]) + kept[j][2]>>]
        sh == Shuffle(msgs, L.rng)
    IN  [val |-> Take(sh.val, FEED_SIZE), L |-> [L EXCEPT !.rng = sh.rng]]

\* the public query accessors
Queries ==
    {"get_standings", "get_playoff_bracket", "get_league_leaders", "get_card_profile",
     "get_synergies_table", "get_rivalries", "get_last_draft_grades", "get_patch_notes",
     "get_patch_reactions_feed"}

\* the League a call of the accessor leaves behind (the arguments, where the
\* accessor takes any: the defaults, the first card, the first team)
AfterQuery(name, L) ==
    CASE name = "get_standings" -> L
      [] name = "get_playoff_bracket" -> get_playoff_bracket(L).L
      [] name = "get_league_leaders" -> get_league_leaders(L, "crowns", None).L
      [] name = "get_card_profile" -> get_card_profile(L, L.card_order[1]).L
      [] name = "get_synergies_table" -> get_synergies_table(L).L
      [] name = "get_rivalries" -> get_rivalries(L, L.team_order[1]).L
      [] name = "get_last_draft_grades" -> get_last_draft_grades(L).L
      [] name = "get_patch_notes" -> get_patch_notes(L, None).L
      [] OTHER -> get_patch_reactions_feed(L).L

-----------------------------------------------------------------------------
(***************************************************************************)
(* The state: one League, the module-level _card_id_counter, the number of *)
(* run_full_season calls made so far, the number of query calls made so    *)
(* far, and a second League (used only by the specifications that compare  *)
(* two leagues).                                                           *)
(***************************************************************************)
VARIABLES league, twin, card_id_counter, calls, queries

vars == <<league, twin, card_id_counter, calls, queries>>

Seeds == {DEFAULT_SEED + k : k \in 0..(NumSeeds - 1)}

Init ==
    \E seed \in Seeds :
        /\ league = NewLeague(seed, 1)
        /\ card_id_counter = 1 + Len(league.card_order)
        /\ twin = None
        /\ calls = 0
        /\ queries = 0

PatchPhase ==
    /\ league.pc = "idle"
    /\ calls < MaxCalls
    /\ league' = PatchPhaseOp(league)
    /\ calls' = calls + 1
    /\ UNCHANGED <<twin, card_id_counter, queries>>

RunDraftStart ==
    /\ league.pc = "draft"
    /\ league' = RunDraftStartOp(league, card_id_counter)
    /\ card_id_counter' = card_id_counter + RookieClass
    /\ UNCHANGED <<twin, calls, queries>>

DraftPick ==
    /\ league.pc = "pick"
    /\ league' = DraftPickOp(league)
    /\ UNCHANGED <<twin, card_id_counter, calls, queries>>

DraftFinish ==
    /\ league.pc = "starters"
    /\ league' = DraftFinishOp(league)
    /\ UNCHANGED <<twin, card_id_counter, calls, queries>>

MakeScheduleStep ==
    /\ league.pc = "schedule"
    /\ league' = MakeScheduleOp(league)
    /\ UNCHANGED <<twin, card_id_counter, calls, queries>>

PlayGame ==
    /\ league.pc = "game"
    /\ league' = PlayGameOp(league)
    /\ UNCHANGED <<twin, card_id_counter, calls, queries>>

SeedPlayoffsStep ==
    /\ league.pc = "seed"
    /\ league' = SeedPlayoffsOp(league)
    /\ UNCHANGED <<twin, card_id_counter, calls, queries>>

PlayoffGame ==
    /\ league.pc = "series"
    /\ league' = PlayoffGameOp(league)
    /\ UNCHANGED <<twin, card_id_counter, calls, queries>>

ComputeAwardsStep ==
    /\ league.pc = "awards"
    /\ league' = ComputeAwardsOp(league)
    /\ UNCHANGED <<twin, card_id_counter, calls, queries>>

UpdateLeadersAndHistory ==
    /\ league.pc = "leaders"
    /\ league' = UpdateLeadersAndHistoryOp(league)
    /\ UNCHANGED <<twin, card_id_counter, calls, queries>>

Offseason ==
    /\ league.pc = "offseason"
    /\ league' = OffseasonOp(league)
    /\ UNCHANGED <<twin, card_id_counter, calls, queries>>

Next ==
    \/ PatchPhase
    \/ RunDraftStart
    \/ DraftPick
    \/ DraftFinish
    \/ MakeScheduleStep
    \/ PlayGame
    \/ SeedPlayoffsStep
    \/ PlayoffGame
    \/ ComputeAwardsStep
    \/ UpdateLeadersAndHistory
    \/ Offseason

Spec == Init /\ [][Next]_vars

-----------------------------------------------------------------------------
(***************************************************************************)
(* Two leagues built from one seed in one process, the second after the    *)
(* first, each then run through run_full_season once: the first call       *)
(* returns before the second starts.                                       *)
(***************************************************************************)
\* the next phase of run_full_season on L, the module's _card_id_counter being ctr
StepOp(L, ctr) ==
    CASE L.pc = "idle" -> PatchPhaseOp(L)
      [] L.pc = "draft" -> RunDraftStartOp(L, ctr)
      [] L.pc = "pick" -> DraftPickOp(L)
      [] L.pc = "starters" -> DraftFinishOp(L)
      [] L.pc = "schedule" -> MakeScheduleOp(L)
      [] L.pc = "game" -> PlayGameOp(L)
      [] L.pc = "seed" -> SeedPlayoffsOp(L)
      [] L.pc = "series" -> PlayoffGameOp(L)
      [] L.pc = "awards" -> ComputeAwardsOp(L)
      [] L.pc = "leaders" -> UpdateLeadersAndHistoryOp(L)
      [] OTHER -> OffseasonOp(L)

\* _card_id_counter after that phase: only _generate_rookies calls next_card_id
StepCounter(L, ctr) == IF L.pc = "draft" THEN ctr + RookieClass ELSE ctr

TwinInit ==
    \E seed \in Seeds :
        /\ league = NewLeague(seed, 1)
        /\ twin = NewLeague(seed, 1 + Len(league.card_order))
        /\ card_id_counter = 1 + Len(league.card_order) + Len(twin.card_order)
        /\ calls = 0
        /\ queries = 0

FirstRun ==
    /\ (league.pc = "idle" => calls = 0)
    /\ league' = StepOp(league, card_id_counter)
    /\ card_id_counter' = StepCounter(league, card_id_counter)
    /\ calls' = IF league.pc = "idle" THEN 1 ELSE calls
    /\ UNCHANGED <<twin, queries>>

SecondRun ==
    /\ league.pc = "idle"
    /\ calls >= 1
    /\ (twin.pc = "idle" => calls = 1)
    /\ twin' = StepOp(twin, card_id_counter)
    /\ card_id_counter' = StepCounter(twin, card_id_counter)
    /\ calls' = IF twin.pc = "idle" THEN 2 ELSE calls
    /\ UNCHANGED <<league, queries>>

TwinNext ==
    \/ FirstRun
    \/ SecondRun

SpecTwin == TwinInit /\ [][TwinNext]_vars

-----------------------------------------------------------------------------
(***************************************************************************)
(* Patches with the choice of the cards and rules left free: any card may  *)
(* be buffed or nerfed and any rule shifted, any number of times.          *)
(***************************************************************************)
\* the stat deltas of the free patches: one outcome of the five draws of
\* rng.choice([0, 1, 2, 3]), with stats left alone and stats moved by 2 and by 3
FreeDeltas == {<<3, 0, 2, 0, 3>>}

\* the cards the free patches change: the first card of the initial pool and
\* the latest rookie
FreeCards(L) == {L.card_order[1], L.card_order[Len(L.card_order)]}

\* _buff_card (sign = 1) or _nerf_card (sign = -1) with the deltas d, and
\* card.compute_ovr(), on each of these cards
PatchFreeCards(L, d, sign) ==
    [L EXCEPT !.cards = [cid \in DOMAIN L.cards |->
        IF cid \in FreeCards(L)
        THEN LET c == ApplyDeltas(L.cards[cid], [i \in 1..5 |-> sign * d[i]])
             IN  [c EXCEPT !.ovr = ComputeOvr(c)]
        ELSE L.cards[cid]]]

\* a league whose first rookie class has been generated
CardPatchInit ==
    \E seed \in Seeds :
        /\ league = GenerateRookies(1, RookieClass, 1 + Len(NewLeague(seed, 1).card_order),
                                    NewLeague(seed, 1))
        /\ card_id_counter = 1 + Len(league.card_order)
        /\ twin = None
        /\ calls = 0
        /\ queries = 0

FreeBuff ==
    /\ \E d \in FreeDeltas : league' = PatchFreeCards(league, d, 1)
    /\ UNCHANGED <<twin, card_id_counter, calls, queries>>

FreeNerf ==
    /\ \E d \in FreeDeltas : league' = PatchFreeCards(league, d, -1)
    /\ UNCHANGED <<twin, card_id_counter, calls, queries>>

CardPatchNext ==
    \/ FreeBuff
    \/ FreeNerf

SpecCardPatch == CardPatchInit /\ [][CardPatchNext]_vars

\* the rules whose multiplier the free shifts move: a pair rule, the rule of
\* the three attack types, a single-archetype rule
FreeCodes == {1, Len(ArchetypePairs) + Len(AtkCombos), Len(GenerateSynergies)}

FreeShift ==
    /\ \E code \in FreeCodes, k \in DOMAIN SynShifts :
          league' = [league EXCEPT !.synergies[code].power_mult = ShiftMult(@, SynShifts[k])]
    /\ UNCHANGED <<twin, card_id_counter, calls, queries>>

SynergyShiftNext ==
    \/ FreeShift

SpecSynergyShift == Init /\ [][SynergyShiftNext]_vars

-----------------------------------------------------------------------------
(***************************************************************************)
(* Queries between the seasons.  `league` is the League the UI queries     *)
(* between its run_full_season calls; `twin` is the same League run        *)
(* through the same calls without any query.  The seed is the one app.py   *)
(* constructs its League with.                                             *)
(***************************************************************************)
MaxQueries == 1
MaxQueriedRuns == 2

\* the twin has been run through as many calls as the league
CaughtUp == league.pc = "idle" /\ twin.pc = "idle" /\ twin.drafts = league.drafts

QueryInit ==
    /\ league = NewLeague(DEFAULT_SEED, 1)
    /\ twin = league
    /\ card_id_counter = 1 + Len(league.card_order)
    /\ calls = 0
    /\ queries = 0

\* the UI calls an accessor
QueryCall ==
    /\ CaughtUp
    /\ queries < MaxQueries
    /\ \E name \in Queries : league' = AfterQuery(name, league)
    /\ queries' = queries + 1
    /\ UNCHANGED <<twin, card_id_counter, calls>>

\* the next phase of run_full_season on the queried league
QueriedRun ==
    /\ league.pc = "idle" => CaughtUp /\ calls < MaxQueriedRuns
    /\ league' = StepOp(league, 1 + Len(league.card_order))
    /\ card_id_counter' = 1 + Len(league'.card_order)
    /\ calls' = IF league.pc = "idle" THEN calls + 1 ELSE calls
    /\ UNCHANGED <<twin, queries>>

\* the next phase of run_full_season on the league without queries
PlainRun ==
    /\ league.pc = "idle"
    /\ twin.pc # "idle" \/ twin.drafts < league.drafts
    /\ twin' = StepOp(twin, 1 + Len(twin.card_order))
    /\ UNCHANGED <<league, card_id_counter, calls, queries>>

QueryNext ==
    \/ QueryCall
    \/ QueriedRun
    \/ PlainRun

SpecQuery == QueryInit /\ [][QueryNext]_vars

-----------------------------------------------------------------------------
(***************************************************************************)
(* The calls of run_full_season, with `twin` holding the League as it was  *)
(* when the latest call began.                                             *)
(***************************************************************************)
CallInit ==
    \E seed \in Seeds :
        /\ league = NewLeague(seed, 1)
        /\ twin = league
        /\ card_id_counter = 1 + Len(league.card_order)
        /\ calls = 0
        /\ queries = 0

\* run_full_season is called
CallStart ==
    /\ league.pc = "idle"
    /\ calls < MaxCalls
    /\ twin' = league
    /\ league' = StepOp(league, card_id_counter)
    /\ calls' = calls + 1
    /\ UNCHANGED <<card_id_counter, queries>>

\* the next phase of the running call
CallStep ==
    /\ league.pc # "idle"
    /\ league' = StepOp(league, card_id_counter)
    /\ card_id_counter' = StepCounter(league, card_id_counter)
    /\ UNCHANGED <<twin, calls, queries>>

CallNext ==
    \/ CallStart
    \/ CallStep

SpecCall == CallInit /\ [][CallNext]_vars

-----------------------------------------------------------------------------
(***************************************************************************)
(* The properties.                                                         *)
(***************************************************************************)
\* the roster card ids of all teams, team after team
RosterCards(L) == Flatten([i \in 1..Len(L.team_order) |-> L.teams[L.team_order[i]].roster])

\* the ids of the cards that can be drafted
Draftable(L) == {cid \in DOMAIN L.cards : L.cards[cid].seasons_left > 0}

\* no tie, and both crowns in 0..3
Decided(g) ==
    /\ g.home_crowns # g.away_crowns
    /\ g.home_crowns \in 0..3
    /\ g.away_crowns \in 0..3

\* C1: every game _simulate_game has produced, in the regular season (the
\* game log) or in the playoffs (the latest result), has home_crowns different
\* from away_crowns and both of them in 0..3.
C1_NoTie ==
    /\ league.last_game # NoGame => Decided(league.last_game)
    /\ \A i \in DOMAIN league.game_log : Decided(league.game_log[i])

\* a playoff game has just been simulated, after a logged regular season
C1_Witness ==
    /\ league.last_game # NoGame
    /\ league.last_game.week = 0
    /\ league.game_log # <<>>

\* C2: in every state the rosters of two distinct teams share no card id and
\* no roster holds a card id twice.
C2_RosterExclusive ==
    /\ \A a, b \in DOMAIN league.teams :
          a # b => Range(league.teams[a].roster) \cap Range(league.teams[b].roster) = {}
    /\ \A a \in DOMAIN league.teams :
          Cardinality(Range(league.teams[a].roster)) = Len(league.teams[a].roster)

\* a second season's draft has ended with every roster full
C2_Witness ==
    /\ league.season >= 2
    /\ league.pc = "schedule"
    /\ \A a \in DOMAIN league.teams : Len(league.teams[a].roster) = ROSTER_SIZE

\* C3: when the pick loop of a draft has run to its end, the rosters hold
\* ROSTER_SIZE * team_count cards in all, or fewer only if every draftable card
\* (seasons_left > 0) is on a roster; and no card is on the rosters twice.
C3_DraftComplete ==
    league.pc = "starters" =>
        LET assigned == RosterCards(league)
            full == ROSTER_SIZE * Len(league.team_order)
        IN  /\ Len(assigned) <= full
            /\ Len(assigned) < full => Draftable(league) \subseteq Range(assigned)
            /\ Cardinality(Range(assigned)) = Len(assigned)
            /\ Len(league.loc.picks) = Len(assigned)

\* a draft has ended short of ROSTER_SIZE * team_count cards, the draftable cards
\* being exhausted
C3_Witness ==
    /\ league.pc = "starters"
    /\ RosterCards(league) # <<>>
    /\ Len(RosterCards(league)) < ROSTER_SIZE * Len(league.team_order)

\* C4: when a draft of run_full_season has ended and its grades are recorded,
\* every team holds exactly 4 roster cards, and there is exactly one grade per
\* team, its letter one of A+ .. F.
C4_FullRosters ==
    league.pc = "schedule" =>
        LET grades == league.loc.hist.draft_grades
        IN  /\ \A a \in DOMAIN league.teams : Len(league.teams[a].roster) = ROSTER_SIZE
            /\ \A a \in DOMAIN league.teams :
                  Cardinality({i \in DOMAIN grades : grades[i].team = a}) = 1
            /\ \A i \in DOMAIN grades :
                  grades[i].team \in DOMAIN league.teams /\ grades[i].letter \in Letters

\* the k-th pass of the pick loop, as the snake order of the lottery order prescribes
OnTheClock(order, k) ==
    LET n == Len(order)
        rnd == (k - 1) \div n
        pos == 1 + ((k - 1) % n)
    IN  <<rnd, IF rnd % 2 = 0 THEN order[pos] ELSE order[n + 1 - pos]>>

\* C5: during a draft with the lottery order T1..Tn the teams come on the clock
\* in the order T1..Tn in rounds 1 and 3 and Tn..T1 in rounds 2 and 4, every
\* team once per round, four rounds in all; and no step of the draft changes
\* the lottery order.
C5_SnakeOrder ==
    /\ [](league.pc \in {"pick", "starters"} =>
            LET order == league.loc.order
                clock == league.loc.clock
            IN  /\ Range(order) = DOMAIN league.teams
                /\ Len(order) = Cardinality(DOMAIN league.teams)
                /\ \A k \in DOMAIN clock : clock[k] = OnTheClock(order, k)
                /\ (league.pc = "starters" => Len(clock) = ROSTER_SIZE * Len(order)))
    /\ [][league.pc = "pick" => league'.loc.order = league.loc.order]_vars

\* a draft has ended, with its four rounds on the clock
C5_Witness ==
    /\ league.pc = "starters"
    /\ Len(league.loc.order) >= 2
    /\ Len(league.loc.clock) = ROSTER_SIZE * Len(league.loc.order)
    /\ league.loc.clock[Len(league.loc.order) + 1] = <<1, league.loc.order[Len(league.loc.order)]>>

\* C6: in every step, no card's seasons_left grows or goes below 0; the
\* offseason lowers it by exactly 1 where it is positive and leaves it at 0
\* otherwise; the board of a draft holds no card with seasons_left = 0; and a
\* pick is never a card with seasons_left = 0.
C6_Lifespan ==
    [][/\ \A cid \in DOMAIN league.cards :
             /\ cid \in DOMAIN league'.cards
             /\ league'.cards[cid].seasons_left <= league.cards[cid].seasons_left
             /\ league'.cards[cid].seasons_left >= 0
             /\ (league.pc = "offseason" =>
                    league'.cards[cid].seasons_left =
                        IF league.cards[cid].seasons_left > 0
                        THEN league.cards[cid].seasons_left - 1 ELSE 0)
       /\ (league.pc = "draft" =>
              \A i \in DOMAIN league'.loc.board :
                  league'.cards[league'.loc.board[i]].seasons_left > 0)
       /\ (league.pc = "pick" =>
              \A i \in DOMAIN league'.loc.picks :
                  league'.cards[league'.loc.picks[i].card].seasons_left > 0)
      ]_vars

\* a draft has ended with picks made while some card has seasons_left = 0
C6_Witness ==
    /\ league.pc = "starters"
    /\ league.loc.picks # <<>>
    /\ \E cid \in DOMAIN league.cards : league.cards[cid].seasons_left = 0

\* C7: in every state every synergy rule's power_mult is within the clamp of
\* the patch step, 0.95 .. 1.10, and so within 0.90 .. 1.20.
C7_SynergyBound ==
    \A code \in DOMAIN league.synergies :
        /\ league.synergies[code].power_mult >= SynMultMin
        /\ league.synergies[code].power_mult <= SynMultMax
        /\ league.synergies[code].power_mult * 10000 >= SynergyFloor
        /\ league.synergies[code].power_mult * 10000 <= SynergyCeil

\* shifts have brought one rule to the upper end of the clamp and one to the lower
C7_Witness ==
    /\ \E code \in FreeCodes : league.synergies[code].power_mult = SynMultMax
    /\ \E code \in FreeCodes : league.synergies[code].power_mult = SynMultMin

\* C8: every card's five stats and its ovr are in 0..100, whatever buffs and
\* nerfs it has had.
C8_StatsBounded ==
    \A cid \in DOMAIN league.cards :
        /\ \A i \in 1..5 : StatsOf(league.cards[cid])[i] \in 0..100
        /\ league.cards[cid].ovr \in 0..100

\* nerfs have brought a stat of a patched card down to 0
C8_Witness ==
    \E cid \in FreeCards(league) : \E i \in 1..5 : StatsOf(league.cards[cid])[i] = 0

\* both leagues have run their season
BothRun == calls = 2 /\ league.pc = "idle" /\ twin.pc = "idle"

\* C9: two leagues built from one seed, the second after the first, each run
\* through run_full_season once, end with the same final standings and the
\* same champion.
C9_SameSeedSameSeason ==
    BothRun =>
        /\ get_standings(league) = get_standings(twin)
        /\ Len(league.history) = Len(twin.history)
        /\ \A i \in DOMAIN league.history :
              league.history[i].champion = twin.history[i].champion

\* both seasons are over, a champion is crowned, and the two leagues' card ids differ
C9_Witness ==
    /\ BothRun
    /\ Len(league.history) = 1
    /\ league.history[1].champion # NoTeam
    /\ Range(league.card_order) \cap Range(twin.card_order) = {}

\* the game g carried the boost for a side exactly if that side won a rivalry
\* game among its previous two simulated games
BoostFollowsWin(boost, prior) == boost <=> \E i \in DOMAIN prior : prior[i].won_rival

\* the same, counting only the games played since the draft before g
BoostFollowsWinOfSeason(boost, prior, draft) ==
    boost <=> \E i \in DOMAIN prior : prior[i].won_rival /\ prior[i].draft = draft

RowNotBelow(a, b) ==
    \/ a.record[1] > b.record[1]
    \/ a.record[1] = b.record[1] /\ a.cf - a.ca >= b.cf - b.ca

\* C11: get_standings returns exactly one row per team, and of two consecutive
\* rows the earlier has the greater or equal pair (wins, crowns_for -
\* crowns_against), compared lexicographically.
C11_StandingsSorted ==
    LET rows == get_standings(league)
    IN  /\ Len(rows) = Cardinality(DOMAIN league.teams)
        /\ {rows[i].team : i \in DOMAIN rows} = DOMAIN league.teams
        /\ \A i \in DOMAIN rows : i < Len(rows) => RowNotBelow(rows[i], rows[i + 1])

\* games have been played, two neighbours of the table tie on wins and are
\* ordered by their crown differentials, and the table is not in team order
C11_Witness ==
    LET rows == get_standings(league)
    IN  /\ league.game_log # <<>>
        /\ \E i \in DOMAIN rows :
              /\ i < Len(rows)
              /\ rows[i].record[1] = rows[i + 1].record[1]
              /\ rows[i].cf - rows[i].ca > rows[i + 1].cf - rows[i + 1].ca
        /\ [i \in DOMAIN rows |-> rows[i].team] # league.team_order

\* C12: no query accessor changes any league state, the state of the random
\* source included: whenever the queried league and the league without
\* queries have been run through the same run_full_season calls, they are in
\* the same state.
C12_QueriesReadOnly == CaughtUp => league = twin

\* the latest SeasonHistory
LastHistory(L) == L.history[Len(L.history)]

\* C13: after at least one completed season, get_patch_notes() without a
\* season returns the card and synergy notes of the most recently completed
\* season, and get_league_leaders(category) without a season returns that
\* season's leaders of the category.
C13_LatestNotes ==
    league.pc = "idle" /\ league.history # <<>> =>
        LET last == LastHistory(league)
        IN  /\ get_patch_notes(league, None).val =
                   [cards |-> last.patch_notes, synergies |-> last.synergy_notes]
            /\ \A category \in DOMAIN last.leaders :
                   get_league_leaders(league, category, None).val =
                       [i \in DOMAIN last.leaders[category] |->
                           CardView(league, last.leaders[category][i])]

\* C14: every run_full_season call either applies fully (it returns, one
\* SeasonHistory is appended, the season counter is advanced) or leaves the
\* league exactly as it was when the call began.
C14_AllOrNothing ==
    league.pc = "idle" /\ calls > 0 =>
        \/ /\ ~league.raised
           /\ Len(league.history) = Len(twin.history) + 1
           /\ league.season = twin.season + 1
        \/ league = [twin EXCEPT !.raised = league.raised]

\* C15: a constructed League has exactly NUM_TEAMS teams, with pairwise
\* distinct team names and pairwise distinct GM names.
C15_UniqueTeams ==
    /\ Cardinality(DOMAIN league.teams) = NUM_TEAMS
    /\ Len(league.team_order) = NUM_TEAMS
    /\ \A a, b \in DOMAIN league.teams :
          a # b => league.teams[a].gm_name # league.teams[b].gm_name

\* the "90+" of the synergy registry
SYNERGY_TARGET == 90

\* the codes and requirement sets of the rules
Rules(synergies) ==
    [i \in DOMAIN synergies |->
        [code |-> synergies[i].code,
         requires_archetypes |-> synergies[i].requires_archetypes,
         requires_atktypes |-> synergies[i].requires_atktypes]]

\* C16: the synergy registry holds at least 90 rules with pairwise distinct
\* codes, and its rules (codes and requirement sets) are those it was
\* constructed with: only multipliers change.
C16_SynergyRegistry ==
    /\ Len(league.synergies) >= SYNERGY_TARGET
    /\ \A i, j \in DOMAIN league.synergies :
          i # j => league.synergies[i].code # league.synergies[j].code
    /\ Rules(league.synergies) = Rules(GenerateSynergies)

\* the winner of a simulated game
WinnerOf(g) == IF g.home_crowns > g.away_crowns THEN g.home ELSE g.away

\* C17: when the champion of a season is recorded, the latest simulated game
\* is the playoff game that ended the final series: it was played between the
\* two finalists and the champion won it.
C17_FinalPlayed ==
    league.pc = "leaders" =>
        LET h == league.loc.hist
            g == league.last_game
        IN  /\ g # NoGame
            /\ g.week = 0
            /\ {g.home, g.away} = {h.finalists[1], h.finalists[2]}
            /\ WinnerOf(g) = h.champion

\* C18: in every season after the first, the lottery order of the draft lists
\* the teams by non-decreasing (wins - losses) of the season before.
C18_LotteryByRecord ==
    [][league.pc = "draft" /\ league.history # <<>> =>
          \A i, j \in DOMAIN league'.loc.order :
              i < j => league.teams[league'.loc.order[i]].wins
                           - league.teams[league'.loc.order[i]].losses
                       <= league.teams[league'.loc.order[j]].wins
                           - league.teams[league'.loc.order[j]].losses]_vars

\* C19: the cards _hof_score is called with in an offseason are cards whose
\* seasons_left reaches 0 in that offseason, so that every card has its Hall
\* of Fame check in one offseason only.
C19_HofCheckedOnce ==
    league.pc = "offseason" =>
        \A k \in DOMAIN HandleRetirements(league).checked :
            league.cards[HandleRetirements(league).checked[k]].seasons_left = 1

\* C20: history holds the seasons 1, 2, 3, ... with no gap or repeat, and
\* when a run_full_season call has returned, the season counter is one more
\* than the number of SeasonHistory entries: every call appends the
\* SeasonHistory of the season it began in and advances the counter by 1.
C20_SeasonsConsecutive ==
    /\ \A i \in DOMAIN league.history : league.history[i].season = i
    /\ league.pc = "idle" /\ ~league.raised =>
          league.season = Len(league.history) + 1

\* the phases between the end of a draft and the next patch
AfterDraft ==
    league.pc \in {"schedule", "game", "seed", "series", "awards", "leaders", "offseason"}

\* C21: after every draft, every team's starters are at most STARTERS cards of
\* its roster, no other roster card has a higher ovr than a starter, the
\* backup is the fourth roster card by ovr when the roster has four cards and
\* is absent otherwise, and the backup is not a starter.
C21_StartersTopThree ==
    AfterDraft =>
        \A name \in DOMAIN league.teams :
            LET t == league.teams[name]
                bench == Range(t.roster) \ Range(t.starters)
            IN  /\ Range(t.starters) \subseteq Range(t.roster)
                /\ Len(t.starters) = Min(STARTERS, Len(t.roster))
                /\ Cardinality(Range(t.starters)) = Len(t.starters)
                /\ \A s \in Range(t.starters) : \A c \in bench :
                       league.cards[c].ovr <= league.cards[s].ovr
                /\ IF Len(t.roster) > STARTERS
                   THEN t.backup \in bench /\ bench = {t.backup}
                   ELSE t.backup = None

\* a draft has ended with a full roster whose backup is not the team's last
\* pick and whose starters are not its first three picks in pick order
C21_Witness ==
    /\ league.pc = "schedule"
    /\ \E name \in DOMAIN league.teams :
          /\ Len(league.teams[name].roster) = ROSTER_SIZE
          /\ league.teams[name].backup # None
          /\ league.teams[name].backup # league.teams[name].roster[ROSTER_SIZE]
          /\ league.teams[name].starters # Take(league.teams[name].roster, STARTERS)

\* the number of games of the schedule that team name plays in
GamesOf(schedule, name) ==
    Cardinality({k \in DOMAIN schedule : name \in {schedule[k][1], schedule[k][2]}})

\* C22: the regular-season schedule holds every unordered pair of distinct
\* teams exactly once and no team against itself, so that each of the n teams
\* plays n - 1 games and has wins + losses = n - 1 when the playoffs are seeded.
C22_RoundRobin ==
    LET schedule == league.loc.schedule
        names == DOMAIN league.teams
        n == Cardinality(names)
    IN  /\ league.pc \in {"game", "seed"} =>
              /\ \A k \in DOMAIN schedule :
                     /\ schedule[k][1] # schedule[k][2]
                     /\ {schedule[k][1], schedule[k][2]} \subseteq names
              /\ \A a, b \in names : a # b =>
                     Cardinality({k \in DOMAIN schedule :
                                     {schedule[k][1], schedule[k][2]} = {a, b}}) = 1
              /\ \A a \in names : GamesOf(schedule, a) = n - 1
        /\ league.pc = "seed" =>
              \A a \in names : league.teams[a].wins + league.teams[a].losses = n - 1

\* a regular season has been played through a schedule that is not in the
\* order of the teams, and some team has both won and lost
C22_Witness ==
    /\ league.pc = "seed"
    /\ Len(league.loc.schedule) > 1
    /\ league.loc.schedule # Combinations2(league.team_order)
    /\ \E a \in DOMAIN league.teams :
          league.teams[a].wins > 0 /\ league.teams[a].losses > 0

\* C23: a card credited with crowns in a simulated game has its career
\* contribution total (contribution_sum) raised by its share of the team's
\* crowns, so that every card that has scored a crown has a contribution
\* total greater than 0.
C23_ContributionCounted ==
    \A cid \in DOMAIN league.cards :
        league.cards[cid].crowns_total > 0 => league.cards[cid].contribution_sum > 0

\* the synergy multiplier, less 1, of the lineup of the cards the team has
\* drafted so far together with the candidate cid
FitWithDrafted(L, team, cid) ==
    EffectiveSynergyMultiplier(L.synergies,
        [i \in 1..Len(team.roster) |-> L.cards[team.roster[i]]] \o <<L.cards[cid]>>) - One

\* C24: when a team picks in rounds 2 to 4 of a draft, the synergy-fit term
\* of every candidate is the synergy multiplier of the lineup of the cards
\* the team has already drafted in this draft together with the candidate.
C24_FitUsesDrafted ==
    league.pc = "pick" /\ league.loc.rnd >= 1 =>
        LET team == league.teams[Snake(league.loc.order, league.loc.rnd)[league.loc.pick_idx]]
        IN  \A k \in DOMAIN Candidates(league) :
                SynergyFitScore(league, team, Candidates(league)[k])
                    = FitWithDrafted(league, team, Candidates(league)[k])

\* C25: every run_full_season call returns normally, whatever the number of
\* calls made before it: no call is left by an exception, and both teams of
\* the game about to be simulated have at least one starter.
C25_EveryCallReturns ==
    /\ ~league.raised
    /\ league.pc = "game" =>
          /\ league.teams[league.loc.schedule[league.loc.week][1]].starters # <<>>
          /\ league.teams[league.loc.schedule[league.loc.week][2]].starters # <<>>

\* C26: every simulated game ends 3-0, 2-1, 1-2 or 0-3: its crowns add up to
\* 3, round(3 * p_home) never equals 3 - round(3 * p_home), so that the
\* tie-break is not run, and the home side wins exactly when its power-plus-luck
\* score is at least the away side's.
C26_ThreeCrowns ==
    [][league.pc \in {"game", "series"} /\ league' # league
         /\ league'.last_game # NoGame =>
          LET g == league'.last_game
              score_home == SideScore(league, g.home, NextRng(league.rng))
              score_away == SideScore(league, g.away, NextRng(NextRng(league.rng)))
              h0 == RoundHalfEven(3 * score_home, Max(100000, score_home + score_away))
          IN  /\ g.home_crowns + g.away_crowns = 3
              /\ h0 # 3 - h0
              /\ (g.home_crowns > g.away_crowns) = (score_home >= score_away)]_vars

\* the home side has won one regular-season game and lost another, and a
\* playoff game has been played
C26_Witness ==
    /\ \E i, j \in DOMAIN league.game_log :
          /\ league.game_log[i].home_crowns > league.game_log[i].away_crowns
          /\ league.game_log[j].home_crowns < league.game_log[j].away_crowns
    /\ league.last_game # NoGame
    /\ league.last_game.week = 0

\* the cards that the card notes give the reason to
PatchedFor(notes, reason) ==
    {notes[i].card_id : i \in {j \in DOMAIN notes : notes[j].reason = reason}}

\* C27: in every patch phase the cards that are buffed and the cards that are
\* nerfed are disjoint sets: no card has both a buff and a nerf in the notes
\* of one patch.
C27_BuffNerfDisjoint ==
    league.pc # "idle" =>
        PatchedFor(league.loc.hist.patch_notes, "buff_low_usage")
            \cap PatchedFor(league.loc.hist.patch_notes, "nerf_high_usage") = {}

\* C28: the match-of-the-year entries of the awards computed for a season
\* refer to games of that season only, and the card of each entry scored in
\* the game of its entry.
C28_MotyOfTheSeason ==
    league.pc = "leaders" =>
        LET awards == league.loc.hist.awards
        IN  \A k \in DOMAIN awards.moty :
                LET g == league.game_log[awards.moty[k][1] + 1]
                IN  /\ g.season = awards.season
                    /\ \E side \in DOMAIN g.details : TallyGet(g.details[side], awards.moty[k][2]) > 0

\* the entries of the game log of the season that involve the team
LoggedGames(L, season, name) ==
    Cardinality({i \in DOMAIN L.game_log :
                    /\ L.game_log[i].season = season
                    /\ name \in {L.game_log[i].home, L.game_log[i].away}})

\* C29: every simulated game that changes a team's record is in game_log:
\* after a completed season, every team has as many game_log entries of that
\* season as the wins + losses get_standings shows for it.
C29_EveryGameLogged ==
    league.pc = "idle" /\ ~league.raised /\ league.history # <<>> =>
        \A i \in DOMAIN get_standings(league) :
            LET row == get_standings(league)[i]
            IN  LoggedGames(league, league.season - 1, row.team)
                    = row.record[1] + row.record[2]

\* the draft grades of the seasons recorded and of the season under way
AllGrades ==
    Flatten([i \in DOMAIN league.history |-> league.history[i].draft_grades])
        \o league.loc.hist.draft_grades

=============================================================================
